---- MODULE Spec2Model ----
(***************************************************************************)
(* Verification model of the genysys-pad client: the bonding-curve pricing *)
(* functions (src/lib/utils/calculations.js, src/unnamed/part_002), the    *)
(* TransactionBuilder (src/components/modals/shared/TransactionBuilder.js) *)
(* and the submission pipeline sendTransaction (src/unnamed/part_003).     *)
(*                                                                         *)
(* The specifications of the module:                                       *)
(*   Spec        the submission pipeline (sendTransaction, buildAndSend)   *)
(*   SpecQuote   the pure pricing functions applied to bounded inputs      *)
(*   SpecBuilder the TransactionBuilder's instruction list                 *)
(*   SpecError   the error normalizers applied to bounded error payloads   *)
(*   SpecRetry   retryWithBackoff next to the submission pipeline          *)
(***************************************************************************)
EXTENDS Integers, Sequences, FiniteSets

VARIABLES
  \* ---- pricing (SpecQuote)
  poolData,      \* the pool account handed to the pricing functions
  call,          \* the pricing call made: [fn, amount, config]
  ret,           \* what that call returned (or that it threw)
  \* ---- submission pipeline (Spec)
  op,            \* "none" | "sendTransaction" | "buildAndSend"
  pc,            \* position inside the async function
  wallet,        \* "ready" | "noSign" | "null"
  nSigners,      \* number of additional signers
  confirmation,  \* how the confirmation wait ended
  sigStatus,     \* what getSignatureStatus reported
  outcome,       \* "pending" | "success" | "failure"
  error,         \* the error raised to the caller
  calls,         \* the wallet / RPC calls made so far, in order
  sendOptions,   \* the options sendRawTransaction was called with
  \* ---- TransactionBuilder (SpecBuilder)
  existing,      \* the token accounts that exist on chain
  instructions,  \* this.instructions
  signers,       \* this.signers
  asked,         \* accounts addCreateATAIfNeeded was called for, in order
  \* ---- error normalization (SpecError)
  payload,       \* the error handed to the normalizer: [kind, message]
  normFn,        \* the normalizer called: "none" | "parseProgramError" | "formatErrorMessage"
  normalized,    \* what it returned (or that it threw)
  \* ---- retryWithBackoff (SpecRetry)
  rpc,           \* "idle" | "calling" | "waiting" | "done"
  ri,            \* the loop index i
  rMax,          \* maxRetries
  rLastError,    \* lastError
  rTrace,        \* what happened so far: calls of fn, their errors, delays waited
  rOutcome,      \* "pending" | "returned" | "threw"
  rError,        \* the error thrown to the caller
  \* ---- getTokenOrder (SpecOrder)
  mintA,         \* the first argument, a public key as its bytes
  mintB,         \* the second argument
  tokenOrder,    \* what getTokenOrder(mintA, mintB) returned
  swappedOrder,  \* what getTokenOrder(mintB, mintA) returned
  \* ---- the account sets of the buy and sell modals (SpecTrade)
  tSide,         \* which modal is open: "buy" or "sell"
  tProp,         \* the pool prop: the snapshot of the pool list
  tChain,        \* the pool account on chain, what a fetch returns
  tPoolData,     \* the component state poolData: JsNull until the effect has loaded it
  tAccounts,     \* the accounts object handed to the instruction
  tAtas,         \* the token accounts addMultipleATAs was asked to create
  tOutcome,      \* "idle", "assembled" or "threw"
  \* ---- the records a handler builds its transaction from (SpecHandlers)
  hName,         \* the modal that is open and its handler
  hpc,           \* "closed", "open" (data loaded, waiting for the confirm) or "submitted"
  chainVer,      \* the version of the pool and config records on chain
  openVer,       \* the version the modal's snapshot was read at
  builtFrom      \* the records the transaction was built from: [rec, ver, how]

quoteVars   == <<poolData, call, ret>>
sendVars    == <<op, pc, wallet, nSigners, confirmation, sigStatus, outcome, error, calls,
                 sendOptions>>
builderVars == <<existing, instructions, signers, asked>>
normVars    == <<payload, normFn, normalized>>
retryVars   == <<rpc, ri, rMax, rLastError, rTrace, rOutcome, rError>>
orderVars   == <<mintA, mintB, tokenOrder, swappedOrder>>
tradeVars   == <<tSide, tProp, tChain, tPoolData, tAccounts, tAtas, tOutcome>>
handlerVars == <<hName, hpc, chainVer, openVer, builtFrom>>
vars        == <<poolData, call, ret,
                 op, pc, wallet, nSigners, confirmation, sigStatus, outcome, error, calls,
                 sendOptions,
                 existing, instructions, signers, asked,
                 payload, normFn, normalized,
                 rpc, ri, rMax, rLastError, rTrace, rOutcome, rError,
                 mintA, mintB, tokenOrder, swappedOrder,
                 tSide, tProp, tChain, tPoolData, tAccounts, tAtas, tOutcome,
                 hName, hpc, chainVer, openVer, builtFrom>>

\* the variables an action of one component leaves alone
notQuoteVars   == <<sendVars, builderVars, normVars, retryVars, orderVars, tradeVars, handlerVars>>
notSendVars    == <<quoteVars, builderVars, normVars, retryVars, orderVars, tradeVars, handlerVars>>
notBuilderVars == <<quoteVars, sendVars, normVars, retryVars, orderVars, tradeVars, handlerVars>>
notNormVars    == <<quoteVars, sendVars, builderVars, retryVars, orderVars, tradeVars, handlerVars>>
notRetryVars   == <<quoteVars, sendVars, builderVars, normVars, orderVars, tradeVars, handlerVars>>
notOrderVars   == <<quoteVars, sendVars, builderVars, normVars, retryVars, tradeVars, handlerVars>>
notTradeVars   == <<quoteVars, sendVars, builderVars, normVars, retryVars, orderVars, handlerVars>>
notHandlerVars == <<quoteVars, sendVars, builderVars, normVars, retryVars, orderVars, tradeVars>>

(***************************************************************************)
(* JavaScript Number.  A Number is the exact rational n/d with d > 0, or a *)
(* non-finite value with d = 0: n = 0 is NaN, n = 1 Infinity, n = -1       *)
(* -Infinity.  `undefined` used as a number is NaN (ToNumber(undefined)),  *)
(* and !undefined = !NaN = true, so an undefined amount is the value NaN.  *)
(* The rounding of IEEE doubles is not modelled: arithmetic is exact.      *)
(***************************************************************************)
Abs(x) == IF x < 0 THEN -x ELSE x

Sign(x) == IF x < 0 THEN -1 ELSE IF x > 0 THEN 1 ELSE 0

RECURSIVE Gcd(_, _)
Gcd(a, b) == IF b = 0 THEN a ELSE Gcd(b, a % b)

RECURSIVE Pow10(_)
Pow10(e) == IF e = 0 THEN 1 ELSE 10 * Pow10(e - 1)

\* n/d in lowest terms with a positive denominator; d = 0 gives NaN or an infinity
Num(n, d) ==
  IF d = 0 THEN [n |-> Sign(n), d |-> 0]
  ELSE LET g == Gcd(Abs(n), Abs(d))
           s == Sign(d)
       IN  [n |-> (s * n) \div g, d |-> Abs(d) \div g]

Int2Num(i) == [n |-> i, d |-> 1]
Zero == Int2Num(0)
NaN == [n |-> 0, d |-> 0]

IsNaN(a) == a.d = 0 /\ a.n = 0
IsFinite(a) == a.d # 0

NNeg(a) == [n |-> -a.n, d |-> a.d]

NMul(a, b) ==
  IF a.d = 0 \/ b.d = 0 THEN Num(a.n * b.n, 0)
  ELSE LET g1 == Gcd(Abs(a.n), b.d)
           g2 == Gcd(Abs(b.n), a.d)
       IN  Num((a.n \div g1) * (b.n \div g2), (a.d \div g2) * (b.d \div g1))

\* 1/a; 1/0 is Infinity, 1/Infinity is 0
NRecip(a) == IF a.n < 0 THEN [n |-> -a.d, d |-> -a.n] ELSE [n |-> a.d, d |-> a.n]

NDiv(a, b) == NMul(a, NRecip(b))

NAdd(a, b) ==
  IF a.d = 0 /\ b.d = 0 THEN (IF a.n = b.n THEN a ELSE NaN)
  ELSE IF a.d = 0 THEN a
  ELSE IF b.d = 0 THEN b
  ELSE LET g == Gcd(a.d, b.d)
       IN  Num(a.n * (b.d \div g) + b.n * (a.d \div g), (a.d \div g) * b.d)

NSub(a, b) == NAdd(a, NNeg(b))

\* a < b; every comparison with NaN is false
NLt(a, b) ==
  IF IsNaN(a) \/ IsNaN(b) THEN FALSE
  ELSE IF a.d = 0 /\ b.d = 0 THEN a.n < b.n
  ELSE IF a.d = 0 THEN a.n < 0
  ELSE IF b.d = 0 THEN b.n > 0
  ELSE LET g == Gcd(a.d, b.d)
       IN  a.n * (b.d \div g) < b.n * (a.d \div g)

NLe(a, b) == ~IsNaN(a) /\ ~IsNaN(b) /\ ~NLt(b, a)

\* !x for a Number: 0 and NaN are falsy
Falsy(a) == IsNaN(a) \/ (a.d # 0 /\ a.n = 0)

MathAbs(a) == [n |-> Abs(a.n), d |-> a.d]

MathFloor(a) == IF a.d = 0 THEN a ELSE Int2Num(a.n \div a.d)

(***************************************************************************)
(* BN (bn.js) integers: div truncates toward zero and throws on a zero     *)
(* divisor; toNumber throws above the safe-integer limit (2^53 - 1 in the  *)
(* source; SafeIntegerLimit is that width scaled to the model's integers). *)
(* new BN(x) builds from `x || 0`, so new BN(NaN) is 0; a number beyond    *)
(* the safe-integer limit fails its assertion.                             *)
(***************************************************************************)
SafeIntegerLimit == 4095

BNDiv(a, b) == Sign(a) * Sign(b) * (Abs(a) \div Abs(b))

BNToNumberThrows(a) == Abs(a) > SafeIntegerLimit

(***************************************************************************)
(* Constants of src/unnamed/part_003 (lib/constants).  The decimal widths  *)
(* of the two assets (6 and 9 in the source) are scaled down so that       *)
(* products of reserves stay inside the model checker's integers.          *)
(***************************************************************************)
UsdcDecimals == 2
TokenDecimals == 2

UsdcScale == Pow10(UsdcDecimals)
TokenScale == Pow10(TokenDecimals)

DEFAULT_TRADING_FEE == 100
PERCENTAGE_BASIS_POINTS == 10000

\* `undefined` for an optional integer field
Undefined == -1

(***************************************************************************)
(* Results.  A quote is a record; `fields` names the properties the        *)
(* returned object carries, `threw` says the call raised instead.          *)
(***************************************************************************)
Quote(fs, o, pi, f, t, ppt) ==
  [threw |-> FALSE, fields |-> fs, out |-> o, priceImpact |-> pi, fee |-> f,
   tax |-> t, pricePerToken |-> ppt]

Threw == [threw |-> TRUE, fields |-> {}, out |-> NaN, priceImpact |-> NaN, fee |-> NaN,
          tax |-> NaN, pricePerToken |-> NaN]

Value(v) == Quote({"value"}, v, NaN, NaN, NaN, NaN)

NoRet == Quote({}, NaN, NaN, NaN, NaN, NaN)

(***************************************************************************)
(* The pool account.  kind "null" is a missing pool (null / undefined),    *)
(* kind "malformed" an object without the reserve fields.  buyTax and      *)
(* sellTax are params.buyTax / params.sellTax; tradingFee is Undefined     *)
(* when the account carries no such field.                                 *)
(***************************************************************************)
TotalStable(pd) == pd.reserveStableMint + pd.stableReserveVirtual

TotalToken(pd) == pd.reserveProjectMint + pd.tokenReserveVirtual

\* calculations.js 18-37
calculateCurrentPrice(pd) ==
  IF pd.kind = "null" THEN Value(Zero)
  ELSE IF pd.kind = "malformed" THEN Value(Zero)            \* TypeError, caught
  ELSE IF TotalToken(pd) = 0 THEN Value(Zero)
  ELSE LET stableWithDecimals == TotalStable(pd) * 1000
           price == BNDiv(stableWithDecimals, TotalToken(pd))
       IN  IF BNToNumberThrows(price) THEN Value(Zero)      \* toNumber throws, caught
           ELSE Value(Num(price, 1000))

\* part_002 1-19 (BigInt arithmetic: the division truncates, Number() never throws)
calculateBondingCurvePrice(pd) ==
  IF pd.kind # "ok" THEN Value(Zero)                        \* TypeError, caught
  ELSE IF TotalToken(pd) = 0 THEN Value(Zero)
  ELSE Value(Num(BNDiv(TotalStable(pd) * 1000, TotalToken(pd)), 1000))

\* calculations.js 152-164
calculatePoolProgress(pd) ==
  IF pd.kind = "null" THEN Value(Int2Num(100))
  ELSE IF pd.kind = "malformed" THEN Value(Zero)            \* TypeError, caught
  ELSE IF pd.totalSellAmount = 0 THEN Value(Int2Num(100))
  ELSE LET sold == pd.totalSellAmount - pd.reserveProjectMint
           progress == BNDiv(sold * 100, pd.totalSellAmount)
       IN  IF BNToNumberThrows(progress) THEN Value(Zero)   \* toNumber throws, caught
           ELSE Value(Int2Num(IF progress < 100 THEN progress ELSE 100))

\* config?.tradingFee?.toNumber() || FEES.DEFAULT_TRADING_FEE   (calculations.js 53, 126)
ConfigTradingFee(config) ==
  IF config = Undefined \/ config = 0 THEN DEFAULT_TRADING_FEE ELSE config

HumanStable(pd) ==
  NAdd(Num(pd.reserveStableMint, UsdcScale), Num(pd.stableReserveVirtual, UsdcScale))

HumanToken(pd) ==
  NAdd(Num(pd.reserveProjectMint, TokenScale), Num(pd.tokenReserveVirtual, TokenScale))

\* the buy quote with the token reserve left in raw units, not divided by
\* 10^TOKEN_DECIMALS
BuyRawTokenReserve(pd, usdcAmount, config) ==
  IF pd.kind = "null" \/ Falsy(usdcAmount) \/ NLe(usdcAmount, Zero)
  THEN Quote({"tokensOut", "priceImpact", "fee"}, Zero, Zero, Zero, NaN, NaN)
  ELSE IF pd.kind = "malformed"
  THEN Quote({"tokensOut", "priceImpact", "fee", "tax"}, Zero, Zero, Zero, Zero, NaN)
  ELSE LET tradingFee == ConfigTradingFee(config)
           feeAmount == NMul(usdcAmount, Num(tradingFee, PERCENTAGE_BASIS_POINTS))
           amountAfterFee == NSub(usdcAmount, feeAmount)
           totalStable == HumanStable(pd)
           totalToken == Int2Num(TotalToken(pd))
           k == NMul(totalStable, totalToken)
           newStable == NAdd(totalStable, amountAfterFee)
           newToken == NDiv(k, newStable)
           tokensOut == NSub(totalToken, newToken)
           buyTax == Num(pd.buyTax, PERCENTAGE_BASIS_POINTS)
           taxAmount == NMul(tokensOut, buyTax)
           netTokensOut == NSub(tokensOut, taxAmount)
           oldPrice == NDiv(totalStable, totalToken)
           newPrice == NDiv(newStable, newToken)
           priceImpact == NMul(NDiv(NSub(newPrice, oldPrice), oldPrice), Int2Num(100))
       IN  Quote({"tokensOut", "priceImpact", "fee", "tax"},
                 netTokensOut, MathAbs(priceImpact), feeAmount, taxAmount, NaN)

\* the buy quote with the fee added to the input where the source deducts it
BuyFeeAdded(pd, usdcAmount, config) ==
  IF pd.kind = "null" \/ Falsy(usdcAmount) \/ NLe(usdcAmount, Zero)
  THEN Quote({"tokensOut", "priceImpact", "fee"}, Zero, Zero, Zero, NaN, NaN)
  ELSE IF pd.kind = "malformed"
  THEN Quote({"tokensOut", "priceImpact", "fee", "tax"}, Zero, Zero, Zero, Zero, NaN)
  ELSE LET tradingFee == ConfigTradingFee(config)
           feeAmount == NMul(usdcAmount, Num(tradingFee, PERCENTAGE_BASIS_POINTS))
           amountAfterFee == NAdd(usdcAmount, feeAmount)
           totalStable == HumanStable(pd)
           totalToken == HumanToken(pd)
           k == NMul(totalStable, totalToken)
           newStable == NAdd(totalStable, amountAfterFee)
           newToken == NDiv(k, newStable)
           tokensOut == NSub(totalToken, newToken)
           buyTax == Num(pd.buyTax, PERCENTAGE_BASIS_POINTS)
           taxAmount == NMul(tokensOut, buyTax)
           netTokensOut == NSub(tokensOut, taxAmount)
           oldPrice == NDiv(totalStable, totalToken)
           newPrice == NDiv(newStable, newToken)
           priceImpact == NMul(NDiv(NSub(newPrice, oldPrice), oldPrice), Int2Num(100))
       IN  Quote({"tokensOut", "priceImpact", "fee", "tax"},
                 netTokensOut, MathAbs(priceImpact), feeAmount, taxAmount, NaN)

\* calculations.js 46-91
calculateBuyTokensOut(pd, usdcAmount, config) ==
  IF pd.kind = "null" \/ Falsy(usdcAmount) \/ NLe(usdcAmount, Zero)
  THEN Quote({"tokensOut", "priceImpact", "fee"}, Zero, Zero, Zero, NaN, NaN)
  ELSE IF pd.kind = "malformed"                             \* TypeError, caught
  THEN Quote({"tokensOut", "priceImpact", "fee", "tax"}, Zero, Zero, Zero, Zero, NaN)
  ELSE LET tradingFee == ConfigTradingFee(config)
           feeAmount == NMul(usdcAmount, Num(tradingFee, PERCENTAGE_BASIS_POINTS))
           amountAfterFee == NSub(usdcAmount, feeAmount)
           totalStable == HumanStable(pd)
           totalToken == HumanToken(pd)
           k == NMul(totalStable, totalToken)
           newStable == NAdd(totalStable, amountAfterFee)
           newToken == NDiv(k, newStable)
           tokensOut == NSub(totalToken, newToken)
           buyTax == Num(pd.buyTax, PERCENTAGE_BASIS_POINTS)
           taxAmount == NMul(tokensOut, buyTax)
           netTokensOut == NSub(tokensOut, taxAmount)
           oldPrice == NDiv(totalStable, totalToken)
           newPrice == NDiv(newStable, newToken)
           priceImpact == NMul(NDiv(NSub(newPrice, oldPrice), oldPrice), Int2Num(100))
       IN  Quote({"tokensOut", "priceImpact", "fee", "tax"},
                 netTokensOut, MathAbs(priceImpact), feeAmount, taxAmount, NaN)

\* the sell quote with the two deductions in the other order: the fee taken from the
\* input before the swap, the tax from the output after it
SellFeeFirst(pd, tokenAmount, config) ==
  IF pd.kind = "null" \/ Falsy(tokenAmount) \/ NLe(tokenAmount, Zero)
  THEN Quote({"usdcOut", "priceImpact", "fee"}, Zero, Zero, Zero, NaN, NaN)
  ELSE IF pd.kind = "malformed"
  THEN Quote({"usdcOut", "priceImpact", "fee", "tax"}, Zero, Zero, Zero, Zero, NaN)
  ELSE LET tradingFee == ConfigTradingFee(config)
           feeAmount == NMul(tokenAmount, Num(tradingFee, PERCENTAGE_BASIS_POINTS))
           amountAfterFee == NSub(tokenAmount, feeAmount)
           totalStable == HumanStable(pd)
           totalToken == HumanToken(pd)
           k == NMul(totalStable, totalToken)
           newToken == NAdd(totalToken, amountAfterFee)
           newStable == NDiv(k, newToken)
           stableOut == NSub(totalStable, newStable)
           sellTax == Num(pd.sellTax, PERCENTAGE_BASIS_POINTS)
           taxAmount == NMul(stableOut, sellTax)
           netUsdcOut == NSub(stableOut, taxAmount)
           oldPrice == NDiv(totalStable, totalToken)
           newPrice == NDiv(newStable, newToken)
           priceImpact == NMul(NDiv(NSub(oldPrice, newPrice), oldPrice), Int2Num(100))
       IN  Quote({"usdcOut", "priceImpact", "fee", "tax"},
                 netUsdcOut, MathAbs(priceImpact), feeAmount, taxAmount, NaN)

\* calculations.js 106-127: the tax, the swap and the fee of the sell quote
SellSteps(pd, tokenAmount, config) ==
  LET sellTax == Num(pd.sellTax, PERCENTAGE_BASIS_POINTS)
      taxAmount == NMul(tokenAmount, sellTax)
      amountAfterTax == NSub(tokenAmount, taxAmount)
      totalStable == HumanStable(pd)
      totalToken == HumanToken(pd)
      k == NMul(totalStable, totalToken)
      newToken == NAdd(totalToken, amountAfterTax)
      newStable == NDiv(k, newToken)
      stableOut == NSub(totalStable, newStable)
      tradingFee == ConfigTradingFee(config)
      feeAmount == NMul(stableOut, Num(tradingFee, PERCENTAGE_BASIS_POINTS))
      netUsdcOut == NSub(stableOut, feeAmount)
  IN  [taxAmount |-> taxAmount, newToken |-> newToken, newStable |-> newStable,
       feeAmount |-> feeAmount, netUsdcOut |-> netUsdcOut]

\* calculations.js 100-145
calculateSellUsdcOut(pd, tokenAmount, config) ==
  IF pd.kind = "null" \/ Falsy(tokenAmount) \/ NLe(tokenAmount, Zero)
  THEN Quote({"usdcOut", "priceImpact", "fee"}, Zero, Zero, Zero, NaN, NaN)
  ELSE IF pd.kind = "malformed"                             \* TypeError, caught
  THEN Quote({"usdcOut", "priceImpact", "fee", "tax"}, Zero, Zero, Zero, Zero, NaN)
  ELSE LET s == SellSteps(pd, tokenAmount, config)
           oldPrice == NDiv(HumanStable(pd), HumanToken(pd))
           newPrice == NDiv(s.newStable, s.newToken)
           priceImpact == NMul(NDiv(NSub(oldPrice, newPrice), oldPrice), Int2Num(100))
       IN  Quote({"usdcOut", "priceImpact", "fee", "tax"},
                 s.netUsdcOut, MathAbs(priceImpact), s.feeAmount, s.taxAmount, NaN)

\* calculateSellUsdcOut(pd, tokenAmount, config).usdcOut: the one field a caller reads
SellUsdcOut(pd, tokenAmount, config) ==
  IF pd.kind = "null" \/ Falsy(tokenAmount) \/ NLe(tokenAmount, Zero) THEN Zero
  ELSE IF pd.kind = "malformed" THEN Zero
  ELSE SellSteps(pd, tokenAmount, config).netUsdcOut

\* calculations.js 471-504: BN arithmetic, no guard and no try/catch
calculateBuyOutput(poolState, stableAmountIn) ==
  LET floored == MathFloor(NMul(stableAmountIn, Int2Num(UsdcScale)))
  IN  IF ~IsNaN(floored) /\ (~IsFinite(floored) \/ BNToNumberThrows(floored.n))
      THEN Threw                                            \* new BN(number) asserts
      ELSE IF poolState.kind # "ok" THEN Threw              \* TypeError
      ELSE LET amountInBN == IF IsNaN(floored) THEN 0 ELSE floored.n   \* BN(NaN || 0)
               tradingFee == IF poolState.tradingFee = Undefined \/ poolState.tradingFee = 0
                             THEN 100 ELSE poolState.tradingFee
               feeAmount == BNDiv(amountInBN * tradingFee, 10000)
               amountInAfterFee == amountInBN - feeAmount
               totalStable == TotalStable(poolState)
               totalToken == TotalToken(poolState)
               k == totalStable * totalToken
               newStable == totalStable + amountInAfterFee
           IN  IF newStable = 0 THEN Threw                               \* BN div by zero
               ELSE LET newToken == BNDiv(k, newStable)
                        projectOut == totalToken - newToken
                        taxAmount == BNDiv(projectOut * poolState.buyTax, 10000)
                        netProjectOut == projectOut - taxAmount
                        tokensOut == Num(netProjectOut, TokenScale)
                        pricePerToken == NDiv(stableAmountIn, tokensOut)
                    IN  Quote({"tokensOut", "pricePerToken", "fee"},
                              tokensOut, NaN, Num(feeAmount, UsdcScale), NaN, pricePerToken)

(***************************************************************************)
(* SpecQuote: a pool is drawn, then one pricing function is applied to it. *)
(***************************************************************************)
StableReserves == {0, 1, 3, 125}
StableVirtuals == {0, 2}
ProjectReserves == {0, 1, 4, 2000}
TokenVirtuals == {0, 3}
TotalSellAmounts == {0, 3, 4}
BuyTaxes == {0, 5000, 10000}
SellTaxes == {0, 5000}
PoolTradingFees == {Undefined, 0, 300}
ConfigTradingFees == {Undefined, 0, 300, 10000}
MaxAmount == 3
Amounts == {NaN, Int2Num(-1), Zero} \cup {Int2Num(i) : i \in 1..MaxAmount}

\* the pools with a large real reserve have no virtual one on that side
OkPools ==
  { p \in [kind : {"ok"}, reserveStableMint : StableReserves,
           stableReserveVirtual : StableVirtuals,
           reserveProjectMint : ProjectReserves, tokenReserveVirtual : TokenVirtuals,
           totalSellAmount : TotalSellAmounts, buyTax : BuyTaxes, sellTax : SellTaxes,
           tradingFee : PoolTradingFees] :
      /\ p.reserveProjectMint > 4 => p.tokenReserveVirtual = 0
      /\ p.reserveStableMint > 3 => p.stableReserveVirtual = 0 }

\* a pool of 30 thousand virtual stable coins and 1 million real tokens, no tax, the
\* default fee; with amounts counted in thousands of the stable coin
ScenarioPool ==
  [kind |-> "ok", reserveStableMint |-> 0, stableReserveVirtual |-> 30 * UsdcScale,
   reserveProjectMint |-> 1 * TokenScale, tokenReserveVirtual |-> 0, totalSellAmount |-> 0,
   buyTax |-> 0, sellTax |-> 0, tradingFee |-> Undefined]

NoPool(k) ==
  [kind |-> k, reserveStableMint |-> 0, stableReserveVirtual |-> 0, reserveProjectMint |-> 0,
   tokenReserveVirtual |-> 0, totalSellAmount |-> 0, buyTax |-> 0, sellTax |-> 0,
   tradingFee |-> Undefined]

Pools == OkPools \cup {ScenarioPool, NoPool("null"), NoPool("malformed")}

Call(f, a, c) == [fn |-> f, amount |-> a, config |-> c]

NoCall == Call("none", NaN, Undefined)

QuoteIdle == poolData = NoPool("null") /\ call = NoCall /\ ret = NoRet

CallCurrentPrice ==
  /\ call = NoCall
  /\ call' = Call("calculateCurrentPrice", NaN, Undefined)
  /\ ret' = calculateCurrentPrice(poolData)
  /\ UNCHANGED <<poolData, notQuoteVars>>

CallBondingCurvePrice ==
  /\ call = NoCall
  /\ call' = Call("calculateBondingCurvePrice", NaN, Undefined)
  /\ ret' = calculateBondingCurvePrice(poolData)
  /\ UNCHANGED <<poolData, notQuoteVars>>

CallPoolProgress ==
  /\ call = NoCall
  /\ call' = Call("calculatePoolProgress", NaN, Undefined)
  /\ ret' = calculatePoolProgress(poolData)
  /\ UNCHANGED <<poolData, notQuoteVars>>

CallBuyTokensOut ==
  /\ call = NoCall
  /\ \E a \in Amounts, c \in ConfigTradingFees :
       /\ call' = Call("calculateBuyTokensOut", a, c)
       /\ ret' = calculateBuyTokensOut(poolData, a, c)
  /\ UNCHANGED <<poolData, notQuoteVars>>

CallSellUsdcOut ==
  /\ call = NoCall
  /\ \E a \in Amounts, c \in ConfigTradingFees :
       /\ call' = Call("calculateSellUsdcOut", a, c)
       /\ ret' = calculateSellUsdcOut(poolData, a, c)
  /\ UNCHANGED <<poolData, notQuoteVars>>

CallBuyOutput ==
  /\ call = NoCall
  /\ \E a \in Amounts :
       /\ call' = Call("calculateBuyOutput", a, Undefined)
       /\ ret' = calculateBuyOutput(poolData, a)
  /\ UNCHANGED <<poolData, notQuoteVars>>

\* calculations.js 195-203: new BN(Math.floor(num * 10^decimals)); new BN(NaN) is BN(0),
\* an infinite or too large number fails the assertion of new BN and the catch block
\* returns BN(0)
numberToBN(num, decimals) ==
  LET floored == MathFloor(NMul(num, Int2Num(Pow10(decimals))))
  IN  IF IsNaN(floored) THEN Value(Zero)
      ELSE IF ~IsFinite(floored) \/ BNToNumberThrows(floored.n) THEN Value(Zero)
      ELSE Value(floored)

\* the amounts handed to numberToBN (parseFloat of a text field): also fractions, the
\* infinities and an amount beyond the safe-integer limit
RawInputs ==
  Amounts \cup {Num(1, 3), Num(-1, 3), Num(1, 0), Num(-1, 0), Int2Num(SafeIntegerLimit)}

\* the call keeps the decimals as its third field
CallNumberToBN ==
  /\ call = NoCall
  /\ \E a \in RawInputs, d \in {UsdcDecimals, TokenDecimals} :
       /\ call' = Call("numberToBN", a, d)
       /\ ret' = numberToBN(a, d)
  /\ UNCHANGED <<poolData, notQuoteVars>>

\* after a buy quote, the usdcOut of the sell quote of its tokensOut on the same pool
\* and config; the call keeps the stableIn of the buy as its amount
CallSellOfBuy ==
  /\ call.fn = "calculateBuyTokensOut"
  /\ call' = Call("buyThenSell", call.amount, call.config)
  /\ ret' = Value(SellUsdcOut(poolData, ret.out, call.config))
  /\ UNCHANGED <<poolData, notQuoteVars>>

(***************************************************************************)
(* The submission pipeline: sendTransaction (part_003 4-83) and            *)
(* TransactionBuilder.build / buildAndSend (TransactionBuilder.js 90-134). *)
(* Each await is one action; the wallet and the RPC node answer            *)
(* nondeterministically.                                                   *)
(***************************************************************************)
MaxSigners == 2

\* "ready" has publicKey, signTransaction and signAllTransactions; "noKey", "noSign" and
\* "noSignAll" lack exactly that one; "null" is no wallet object at all
Wallets == {"ready", "noKey", "noSign", "noSignAll", "null"}
Ops == {"sendTransaction", "buildAndSend"}

\* the modal handlers (handleBuy and the handlers with the same guard): they read the
\* wallet from the useWallet hook, which always gives an object
Handlers == {"handleBuy"}

WALLET_NOT_CONNECTED == "Please connect your wallet"
INVALID_AMOUNT == "Please enter a valid amount"

ErrTimeout == "Transaction confirmation timeout"
ErrTxFailed == "Transaction failed"

\* part_003 34, TransactionBuilder.js 123
SendMaxRetries == 3

NoOptions == [skipPreflight |-> FALSE, maxRetries |-> 0]

\* part_003 32-35, TransactionBuilder.js 121-124
SendOptions == [skipPreflight |-> FALSE, maxRetries |-> SendMaxRetries]

SendIdle ==
  /\ op = "none" /\ pc = "idle" /\ wallet = "ready" /\ nSigners = 0
  /\ confirmation = "none" /\ sigStatus = "none" /\ outcome = "pending"
  /\ error = "none" /\ calls = <<>> /\ sendOptions = NoOptions

BuilderIdle == existing = {} /\ instructions = <<>> /\ signers = 0 /\ asked = <<>>

Fail(e) == pc' = "done" /\ outcome' = "failure" /\ error' = e

Succeed == pc' = "done" /\ outcome' = "success" /\ error' = "none"

RECURSIVE Repeat(_, _)
Repeat(x, n) == IF n = 0 THEN <<>> ELSE <<x>> \o Repeat(x, n - 1)

\* the caller invokes sendTransaction(connection, wallet, instructions, signers) or
\* builder.buildAndSend()
Start ==
  /\ pc = "idle"
  /\ \/ /\ \E o \in Ops, w \in Wallets, n \in 0..MaxSigners :
             op' = o /\ wallet' = w /\ nSigners' = n
        /\ pc' = "blockhash"
     \/ /\ \E o \in Handlers, w \in Wallets \ {"null"} :
             op' = o /\ wallet' = w /\ nSigners' = 0
        /\ pc' = "guard"
  /\ UNCHANGED <<confirmation, sigStatus, outcome, error, calls, sendOptions, notSendVars>>

\* BuyTokenModal.js 149-200: the guards of the handler, then its account reads; the
\* handler goes on to builder.buildAndSend() (line 275) inside its try block
HandlerGuard ==
  /\ pc = "guard"
  /\ \/ /\ wallet \in {"noKey", "noSign"}             \* !publicKey || !signTransaction
        /\ pc' = "done" /\ outcome' = "declined" /\ error' = WALLET_NOT_CONNECTED
        /\ UNCHANGED calls
     \/ /\ wallet \notin {"noKey", "noSign"}
        /\ \/ /\ pc' = "done" /\ outcome' = "declined" /\ error' = INVALID_AMOUNT
              /\ UNCHANGED calls
           \/ /\ calls' = Append(calls, "account.fetch")
              /\ \/ Fail("account.fetch failed")
                 \/ pc' = "blockhash" /\ UNCHANGED <<outcome, error>>
  /\ UNCHANGED <<op, wallet, nSigners, confirmation, sigStatus, sendOptions, notSendVars>>

\* part_003 9-20; TransactionBuilder.js 94-102 up to the call of signTransaction
GetLatestBlockhash ==
  /\ pc = "blockhash"
  /\ calls' = Append(calls, "getLatestBlockhash")
  /\ \/ Fail("getLatestBlockhash failed")
     \/ /\ wallet = "null"
        /\ Fail("TypeError")                    \* wallet.publicKey of null
     \/ /\ wallet = "noSign"
        /\ IF op = "sendTransaction" THEN Fail("Wallet not ready")      \* part_003 20
           ELSE Fail("TypeError")               \* signTransaction is not a function
     \/ /\ wallet \in {"ready", "noKey", "noSignAll"}   \* without publicKey: feePayer undefined
        /\ pc' = "sign"
        /\ UNCHANGED <<outcome, error>>
  /\ UNCHANGED <<op, wallet, nSigners, confirmation, sigStatus, sendOptions, notSendVars>>

\* part_003 22-27; TransactionBuilder.js 102-107
SignTransaction ==
  /\ pc = "sign"
  /\ \/ /\ calls' = Append(calls, "signTransaction")
        /\ Fail("User rejected the request")
     \/ /\ calls' = Append(calls, "signTransaction") \o Repeat("partialSign", nSigners)
        /\ pc' = "send"
        /\ UNCHANGED <<outcome, error>>
  /\ UNCHANGED <<op, wallet, nSigners, confirmation, sigStatus, sendOptions, notSendVars>>

\* the raw send made a second time when the first one failed
ResendRawTransaction ==
  /\ pc = "send"
  /\ sendOptions' = SendOptions
  /\ \/ calls' = Append(calls, "sendRawTransaction") \o <<"sendRawTransaction">>
        /\ Fail("sendRawTransaction failed")
     \/ calls' = Append(calls, "sendRawTransaction")
        /\ pc' = "confirm" /\ UNCHANGED <<outcome, error>>
  /\ UNCHANGED <<op, wallet, nSigners, confirmation, sigStatus, notSendVars>>

\* part_003 31-35; TransactionBuilder.js 120-124
SendRawTransaction ==
  /\ pc = "send"
  /\ calls' = Append(calls, "sendRawTransaction")
  /\ sendOptions' = SendOptions
  /\ \/ Fail("sendRawTransaction failed")
     \/ pc' = "confirm" /\ UNCHANGED <<outcome, error>>
  /\ UNCHANGED <<op, wallet, nSigners, confirmation, sigStatus, notSendVars>>

\* the confirmation resolves with value.err = null
ConfirmOk ==
  /\ pc = "confirm"
  /\ calls' = Append(calls, "confirmTransaction")
  /\ confirmation' = "ok"
  /\ Succeed                                    \* part_003 72; TransactionBuilder.js 133
  /\ UNCHANGED <<op, wallet, nSigners, sigStatus, sendOptions, notSendVars>>

\* the confirmation resolves with a protocol-reported error in value.err
ConfirmErr ==
  /\ pc = "confirm"
  /\ calls' = Append(calls, "confirmTransaction")
  /\ confirmation' = "err"
  /\ IF op = "sendTransaction"
     THEN \* part_003 54-56: thrown inside the try, caught at line 59
          pc' = "status" /\ error' = ErrTxFailed /\ UNCHANGED outcome
     ELSE \* TransactionBuilder.js 127-133: the resolved value is not read
          Succeed
  /\ UNCHANGED <<op, wallet, nSigners, sigStatus, sendOptions, notSendVars>>

\* the timer of Promise.race fires first (part_003 49-51); buildAndSend sets no timer
ConfirmTimeout ==
  /\ pc = "confirm"
  /\ op = "sendTransaction"
  /\ calls' = Append(calls, "confirmTransaction")
  /\ confirmation' = "timeout"
  /\ pc' = "status" /\ error' = ErrTimeout
  /\ UNCHANGED <<op, wallet, nSigners, sigStatus, outcome, sendOptions, notSendVars>>

\* confirmTransaction itself rejects (block height exceeded, RPC failure)
ConfirmRejects ==
  /\ pc = "confirm"
  /\ calls' = Append(calls, "confirmTransaction")
  /\ confirmation' = "rejected"
  /\ IF op = "sendTransaction"
     THEN pc' = "status" /\ error' = "confirmTransaction failed" /\ UNCHANGED outcome
     ELSE Fail("confirmTransaction failed")
  /\ UNCHANGED <<op, wallet, nSigners, sigStatus, sendOptions, notSendVars>>

SignatureStatuses == {"null", "processed", "confirmed", "finalized"}

StatusFinalizedOnly(s) == s = "finalized"

\* part_003 64
StatusLanded(s) == s = "confirmed" \/ s = "finalized"

\* part_003 59-70: the catch block of the confirmation
GetSignatureStatus ==
  /\ pc = "status"
  /\ calls' = Append(calls, "getSignatureStatus")
  /\ \/ /\ sigStatus' = "threw"
        /\ Fail("getSignatureStatus failed")
     \/ \E s \in SignatureStatuses :
          /\ sigStatus' = s
          /\ IF StatusLanded(s) THEN Succeed
             ELSE pc' = "done" /\ outcome' = "failure" /\ UNCHANGED error  \* throw confirmError
  /\ UNCHANGED <<op, wallet, nSigners, confirmation, sendOptions, notSendVars>>

(***************************************************************************)
(* TransactionBuilder's instruction list (TransactionBuilder.js 10-84).    *)
(***************************************************************************)
MaxInstructions == 4
MaxBuilderSigners == 1
MaxAsked == 3

Atas == {"ataA", "ataB"}

SetComputeUnitLimit == [type |-> "setComputeUnitLimit", ata |-> "none"]
SetComputeUnitPrice == [type |-> "setComputeUnitPrice", ata |-> "none"]
CreateATA(a) == [type |-> "createAssociatedTokenAccount", ata |-> a]
ProgramIx == [type |-> "program", ata |-> "none"]

\* the compute-budget directives pushed at the end of the list instead of the front
AddComputeBudgetAtEnd ==
  /\ Len(instructions) + 2 <= MaxInstructions
  /\ instructions' = instructions \o <<SetComputeUnitLimit, SetComputeUnitPrice>>
  /\ UNCHANGED <<existing, signers, asked, notBuilderVars>>

\* TransactionBuilder.js 23-29
AddComputeBudget ==
  /\ Len(instructions) + 2 <= MaxInstructions
  /\ instructions' = <<SetComputeUnitLimit, SetComputeUnitPrice>> \o instructions
  /\ UNCHANGED <<existing, signers, asked, notBuilderVars>>

\* TransactionBuilder.js 38-55 on the list ixs: getAccountInfo answers (rpcOk) or throws
CreateATAIfNeeded(ixs, a, rpcOk) ==
  IF rpcOk /\ a \notin existing THEN Append(ixs, CreateATA(a)) ELSE ixs

AddCreateATAIfNeeded ==
  /\ Len(instructions) < MaxInstructions
  /\ Len(asked) < MaxAsked
  /\ \E a \in Atas, rpcOk \in BOOLEAN :
       /\ instructions' = CreateATAIfNeeded(instructions, a, rpcOk)
       /\ asked' = Append(asked, a)
  /\ UNCHANGED <<existing, signers, notBuilderVars>>

\* TransactionBuilder.js 61-66 for a list of two accounts
AddMultipleATAs ==
  /\ Len(instructions) + 2 <= MaxInstructions
  /\ Len(asked) + 2 <= MaxAsked
  /\ \E a1 \in Atas, a2 \in Atas, ok1 \in BOOLEAN, ok2 \in BOOLEAN :
       /\ instructions' =
            CreateATAIfNeeded(CreateATAIfNeeded(instructions, a1, ok1), a2, ok2)
       /\ asked' = asked \o <<a1, a2>>
  /\ UNCHANGED <<existing, signers, notBuilderVars>>

\* TransactionBuilder.js 72-75
AddInstruction ==
  /\ Len(instructions) < MaxInstructions
  /\ instructions' = Append(instructions, ProgramIx)
  /\ UNCHANGED <<existing, signers, asked, notBuilderVars>>

\* TransactionBuilder.js 81-84
AddSigner ==
  /\ signers < MaxBuilderSigners
  /\ signers' = signers + 1
  /\ UNCHANGED <<existing, instructions, asked, notBuilderVars>>

(***************************************************************************)
(* Error normalization: parseProgramError (part_001 11-96) and             *)
(* formatErrorMessage (formatters.js 200-217).  A message is the sequence  *)
(* of its characters, so that String.includes and String.match are         *)
(* computed on the text itself.                                            *)
(***************************************************************************)
HexDigits ==
  {"0", "1", "2", "3", "4", "5", "6", "7", "8", "9",
   "a", "b", "c", "d", "e", "f", "A", "B", "C", "D", "E", "F"}

\* a prefix test in place of the substring test
StartsWith(s, t) == Len(t) <= Len(s) /\ SubSeq(s, 1, Len(t)) = t

\* String.prototype.includes
Includes(s, t) == \E i \in 0..(Len(s) - Len(t)) : SubSeq(s, i + 1, i + Len(t)) = t

\* the positions where /0x[0-9a-fA-F]+/ can match
HexStarts(s) ==
  {i \in 1..(Len(s) - 2) : s[i] = "0" /\ s[i + 1] = "x" /\ s[i + 2] \in HexDigits}

Min(S) == CHOOSE x \in S : \A y \in S : x <= y

\* the greedy end of the run of hex digits that holds position j
RECURSIVE HexEnd(_, _)
HexEnd(s, j) == IF j < Len(s) /\ s[j + 1] \in HexDigits THEN HexEnd(s, j + 1) ELSE j

\* errorMessage.match(/0x[0-9a-fA-F]+/): the leftmost match, <<>> for null (part_001 63)
MatchHexCode(s) ==
  IF HexStarts(s) = {} THEN <<>>
  ELSE LET i == Min(HexStarts(s)) IN SubSeq(s, i, HexEnd(s, i + 2))

Code0x1771 == <<"0", "x", "1", "7", "7", "1">>
Code0x1786 == <<"0", "x", "1", "7", "8", "6">>
Code0x1787 == <<"0", "x", "1", "7", "8", "7">>
TextInsufficient == <<"i", "n", "s", "u", "f", "f", "i", "c", "i", "e", "n", "t">>
TextUserRejected == <<"U", "s", "e", "r", " ", "r", "e", "j", "e", "c", "t", "e", "d">>
TextSimulationFailed == <<"S", "i", "m", "u", "l", "a", "t", "i", "o", "n", " ", "f", "a", "i", "l", "e", "d">>
TextBlockhashNotFound == <<"B", "l", "o", "c", "k", "h", "a", "s", "h", " ", "n", "o", "t", " ", "f", "o", "u", "n", "d">>

\* ERROR_MESSAGES (part_003 219-230)
TRANSACTION_FAILED == "Transaction failed"
INSUFFICIENT_BALANCE == "Insufficient balance"
INSUFFICIENT_LIQUIDITY == "Insufficient liquidity in pool"
WALLET_LIMIT_EXCEEDED == "Wallet limit exceeded. You cannot sell this much yet."
GLOBAL_LIMIT_EXCEEDED == "Global price limit exceeded. Try selling a smaller amount."
UNAUTHORIZED == "Unauthorized action"

\* a normalizer returns a fixed text, or the message it was given unchanged (raw)
Normalized(t) == [threw |-> FALSE, raw |-> FALSE, text |-> t]

RawMessage == [threw |-> FALSE, raw |-> TRUE, text |-> ""]

NormThrew == [threw |-> TRUE, raw |-> FALSE, text |-> ""]

NoNorm == [threw |-> FALSE, raw |-> FALSE, text |-> ""]

\* errorMap (part_001 18-60), in its order
errorMap ==
  << [key |-> <<"O", "w", "n", "e", "r", "A", "l", "r", "e", "a", "d", "y", "S", "e", "t">>,
      value |-> "Owner has already been set"],
     [key |-> <<"U", "n", "a", "u", "t", "h", "o", "r", "i", "z", "e", "d">>,
      value |-> UNAUTHORIZED],
     [key |-> <<"N", "o", "S", "t", "a", "b", "l", "e", "C", "o", "i", "n", "s">>,
      value |-> "No stable coins provided"],
     [key |-> <<"C", "o", "i", "n", "N", "o", "t", "F", "o", "u", "n", "d">>,
      value |-> "Stable coin not found"],
     [key |-> <<"T", "o", "k", "e", "n", "A", "l", "r", "e", "a", "d", "y", "M", "i", "n", "t", "e", "d">>,
      value |-> "Token has already been minted"],
     [key |-> <<"I", "n", "v", "a", "l", "i", "d", "T", "a", "x">>,
      value |-> "Invalid tax value (must be 0-100%)"],
     [key |-> <<"N", "o", "C", "r", "e", "a", "t", "o", "r">>,
      value |-> "No creator specified"],
     [key |-> <<"I", "n", "v", "a", "l", "i", "d", "R", "o", "u", "t", "e", "r">>,
      value |-> "Invalid DEX router selected"],
     [key |-> <<"U", "n", "s", "u", "p", "p", "o", "r", "t", "e", "d", "S", "t", "a", "b", "l", "e", "C", "o", "i", "n">>,
      value |-> "Unsupported stable coin"],
     [key |-> <<"I", "n", "v", "a", "l", "i", "d", "A", "m", "o", "u", "n", "t">>,
      value |-> INVALID_AMOUNT],
     [key |-> <<"I", "n", "s", "u", "f", "f", "i", "c", "i", "e", "n", "t", "L", "i", "q", "u", "i", "d", "i", "t", "y">>,
      value |-> INSUFFICIENT_LIQUIDITY],
     [key |-> <<"M", "a", "t", "h", "O", "v", "e", "r", "f", "l", "o", "w">>,
      value |-> "Mathematical overflow occurred"],
     [key |-> <<"G", "l", "o", "b", "a", "l", "L", "i", "m", "i", "t", "E", "x", "c", "e", "e", "d", "e", "d">>,
      value |-> GLOBAL_LIMIT_EXCEEDED],
     [key |-> <<"W", "a", "l", "l", "e", "t", "L", "i", "m", "i", "t", "E", "x", "c", "e", "e", "d", "e", "d">>,
      value |-> WALLET_LIMIT_EXCEEDED],
     [key |-> <<"P", "o", "o", "l", "N", "o", "t", "C", "o", "m", "p", "l", "e", "t", "e">>,
      value |-> "Pool is not complete yet"],
     [key |-> <<"P", "o", "o", "l", "A", "l", "r", "e", "a", "d", "y", "F", "i", "n", "a", "l", "i", "z", "e", "d">>,
      value |-> "Pool has already been finalized"],
     [key |-> <<"N", "o", "T", "o", "k", "e", "n", "s", "T", "o", "A", "d", "d">>,
      value |-> "No tokens available to add"],
     [key |-> <<"U", "n", "s", "u", "p", "p", "o", "r", "t", "e", "d", "D", "e", "x">>,
      value |-> "Unsupported DEX"],
     [key |-> <<"P", "o", "o", "l", "C", "l", "o", "s", "e", "d">>,
      value |-> "Pool is closed for trading"],
     [key |-> <<"I", "n", "s", "u", "f", "f", "i", "c", "i", "e", "n", "t", "O", "u", "t", "p", "u", "t", "A", "m", "o", "u", "n", "t">>,
      value |-> "Output amount too low"],
     [key |-> <<"P", "r", "i", "c", "e", "L", "i", "m", "i", "t", "E", "x", "c", "e", "e", "d", "e", "d">>,
      value |-> "Price limit exceeded"],
     [key |-> <<"I", "n", "s", "u", "f", "f", "i", "c", "i", "e", "n", "t", "T", "o", "k", "e", "n", "s">>,
      value |-> "Insufficient token balance"],
     [key |-> <<"T", "o", "o", "M", "a", "n", "y", "R", "e", "c", "e", "i", "v", "e", "r", "s">>,
      value |-> "Too many tax receivers"],
     [key |-> <<"I", "n", "v", "a", "l", "i", "d", "P", "e", "r", "c", "e", "n", "t", "a", "g", "e", "s">>,
      value |-> "Invalid percentage values"],
     [key |-> <<"P", "o", "o", "l", "N", "o", "t", "C", "l", "o", "s", "e", "d">>,
      value |-> "Pool is not closed yet"],
     [key |-> <<"N", "o", "L", "o", "c", "k", "e", "d", "T", "o", "k", "e", "n", "s">>,
      value |-> "No locked tokens found"],
     [key |-> <<"N", "o", "T", "a", "x", "T", "o", "D", "i", "s", "t", "r", "i", "b", "u", "t", "e">>,
      value |-> "No tax available to distribute"],
     [key |-> <<"B", "u", "n", "d", "l", "e", "A", "l", "r", "e", "a", "d", "y", "E", "x", "e", "c", "u", "t", "e", "d">>,
      value |-> "Bundle buy already executed"],
     [key |-> <<"I", "n", "v", "a", "l", "i", "d", "F", "e", "e">>,
      value |-> "Invalid fee amount"],
     [key |-> <<"P", "o", "o", "l", "A", "l", "r", "e", "a", "d", "y", "A", "c", "t", "i", "v", "e">>,
      value |-> "Pool is already active"],
     [key |-> <<"B", "u", "n", "d", "l", "e", "N", "o", "t", "E", "x", "e", "c", "u", "t", "e", "d">>,
      value |-> "Bundle buy not executed yet"],
     [key |-> <<"I", "n", "v", "a", "l", "i", "d", "R", "a", "y", "d", "i", "u", "m", "C", "o", "n", "f", "i", "g">>,
      value |-> "Invalid Raydium configuration"],
     [key |-> <<"R", "a", "y", "d", "i", "u", "m", "P", "o", "o", "l", "C", "r", "e", "a", "t", "i", "o", "n", "F", "a", "i", "l", "e", "d">>,
      value |-> "Failed to create Raydium pool"],
     [key |-> <<"R", "a", "y", "d", "i", "u", "m", "S", "w", "a", "p", "F", "a", "i", "l", "e", "d">>,
      value |-> "Raydium swap failed"],
     [key |-> <<"I", "n", "v", "a", "l", "i", "d", "F", "e", "e", "T", "i", "e", "r">>,
      value |-> "Invalid fee tier selected"],
     [key |-> <<"T", "o", "k", "e", "n", "O", "r", "d", "e", "r", "i", "n", "g", "M", "i", "s", "m", "a", "t", "c", "h">>,
      value |-> "Token ordering mismatch"],
     [key |-> <<"I", "n", "s", "u", "f", "f", "i", "c", "i", "e", "n", "t", "L", "i", "q", "u", "i", "d", "i", "t", "y", "F", "o", "r", "P", "o", "o", "l">>,
      value |-> "Insufficient liquidity for Raydium pool"],
     [key |-> <<"I", "n", "v", "a", "l", "i", "d", "S", "q", "r", "t", "P", "r", "i", "c", "e">>,
      value |-> "Invalid sqrt price"],
     [key |-> <<"P", "o", "o", "l", "N", "o", "t", "F", "i", "n", "a", "l", "i", "z", "e", "d">>,
      value |-> "Pool not finalized to DEX yet"],
     [key |-> <<"R", "a", "y", "d", "i", "u", "m", "A", "l", "r", "e", "a", "d", "y", "I", "n", "i", "t", "i", "a", "l", "i", "z", "e", "d">>,
      value |-> "Raydium pool already initialized"],
     [key |-> <<"R", "a", "y", "d", "i", "u", "m", "P", "o", "o", "l", "N", "o", "t", "C", "r", "e", "a", "t", "e", "d">>,
      value |-> "Raydium pool not created"] >>

\* part_001 75-79: the value of the first key the message includes, "" for none
RECURSIVE FirstMapped(_, _)
FirstMapped(msg, i) ==
  IF i > Len(errorMap) THEN ""
  ELSE IF Includes(msg, errorMap[i].key) THEN errorMap[i].value
  ELSE FirstMapped(msg, i + 1)

MaxDisplayLength == 100

\* error.toString() alone: 'Error: ' before the message of an Error object
ErrorString(e) ==
  IF e.kind = "Error" /\ e.message # <<>>
  THEN <<"E", "r", "r", "o", "r", ":", " ">> \o e.message
  ELSE IF e.kind = "Error" THEN <<"E", "r", "r", "o", "r">> ELSE e.message

\* part_001 14-15: error.message || error.toString(); new Error('').toString() is
\* 'Error', the string form of a string is the string
ErrorMessage(e) ==
  IF e.kind = "Error" /\ e.message = <<>> THEN <<"E", "r", "r", "o", "r">> ELSE e.message

\* part_001 11-96
parseProgramError(e) ==
  IF e.kind = "null" THEN Normalized(TRANSACTION_FAILED)
  ELSE LET errorMessage == ErrorMessage(e)
           errorCode == MatchHexCode(errorMessage)
       IN  IF errorCode = Code0x1771 THEN Normalized(INSUFFICIENT_LIQUIDITY)
           ELSE IF errorCode = Code0x1786 THEN Normalized(GLOBAL_LIMIT_EXCEEDED)
           ELSE IF errorCode = Code0x1787 THEN Normalized(WALLET_LIMIT_EXCEEDED)
           ELSE IF FirstMapped(errorMessage, 1) # ""
                THEN Normalized(FirstMapped(errorMessage, 1))
           ELSE IF Includes(errorMessage, TextInsufficient)
                THEN Normalized(INSUFFICIENT_BALANCE)
           ELSE IF Includes(errorMessage, TextUserRejected)
                THEN Normalized("Transaction cancelled")
           ELSE IF Includes(errorMessage, TextSimulationFailed)
                THEN Normalized("Transaction simulation failed. Please try again.")
           ELSE IF Includes(errorMessage, TextBlockhashNotFound)
                THEN Normalized("Network error. Please try again.")
           ELSE IF Len(errorMessage) > MaxDisplayLength THEN Normalized(TRANSACTION_FAILED)
           ELSE RawMessage

\* formatters.js 200-217
formatErrorMessage(e) ==
  IF e.kind = "string" THEN RawMessage
  ELSE IF e.kind = "null" THEN NormThrew                    \* TypeError: error.message of null
  ELSE IF Includes(e.message, TextInsufficient)
       THEN Normalized("Insufficient balance for this transaction")
  ELSE IF Includes(e.message, Code0x1771)
       THEN Normalized("Insufficient liquidity in the pool")
  ELSE IF Includes(e.message, Code0x1787) THEN Normalized("Wallet limit exceeded")
  ELSE IF Includes(e.message, Code0x1786) THEN Normalized("Global price limit exceeded")
  ELSE IF Includes(e.message, TextUserRejected)
       THEN Normalized("Transaction cancelled by user")
  ELSE IF e.message = <<>> THEN Normalized("An unexpected error occurred")
  ELSE RawMessage

\* a text of 50 characters that none of the rules matches
LongText ==
  <<"f", "a", "i", "l", "e", "d", " ", "t", "o", " ", "s", "e", "n", "d", " ", "t", "r", "a", "n", "s", "a", "c", "t", "i", "o", "n", ":", " ", "c", "u", "s", "t", "o", "m", " ", "p", "r", "o", "g", "r", "a", "m", " ", "e", "r", "r", "o", "r", ":", " ">>

\* the pieces error messages are put together from
Tokens ==
  { Code0x1771, Code0x1786, <<"0", "x", "1">>, <<"a">>, <<" ">>,
    TextInsufficient, TextUserRejected,
    <<"I", "n", "s", "u", "f", "f", "i", "c", "i", "e", "n", "t", "L", "i", "q", "u", "i", "d", "i", "t", "y">>,
    TextSimulationFailed,
    LongText }

MaxTokens == 3

RECURSIVE Concats(_)
Concats(n) == IF n = 0 THEN {<<>>} ELSE {t \o m : t \in Tokens, m \in Concats(n - 1)}

\* the name of each protocol error in the table
ErrorNames == {errorMap[i].key : i \in 1..Len(errorMap)}

Messages == UNION {Concats(n) : n \in 1..MaxTokens} \cup ErrorNames

NullPayload == [kind |-> "null", message |-> <<>>]

\* an Error object may have an empty message; a thrown empty string is falsy, like null
Payloads == {[kind |-> k, message |-> m] : k \in {"Error", "string"}, m \in Messages}
              \cup {[kind |-> "Error", message |-> <<>>], NullPayload}

NormIdle == payload = NullPayload /\ normFn = "none" /\ normalized = NoNorm

CallParseProgramError ==
  /\ normFn = "none"
  /\ normFn' = "parseProgramError"
  /\ normalized' = parseProgramError(payload)
  /\ UNCHANGED <<payload, notNormVars>>

CallFormatErrorMessage ==
  /\ normFn = "none"
  /\ normFn' = "formatErrorMessage"
  /\ normalized' = formatErrorMessage(payload)
  /\ UNCHANGED <<payload, notNormVars>>

(***************************************************************************)
(* retryWithBackoff (part_001 158-181).  fn is any async function: each    *)
(* call of it resolves or rejects with one of a few errors.                *)
(***************************************************************************)
MaxRetries == 3

BaseDelay == 1000

\* a delay that grows by baseDelay with each attempt
TwiceExponent(e) == 2 * e

RECURSIVE Pow2(_)
Pow2(e) == IF e = 0 THEN 1 ELSE 2 * Pow2(e - 1)

\* `undefined`: the value of lastError before any attempt failed
NoError == [kind |-> "undefined", message |-> <<>>]

\* what fn can reject with; the last one is an Error without a message
FnErrors ==
  { [kind |-> "Error", message |-> <<"U", "s", "e", "r", " ", "r", "e", "j", "e", "c", "t", "e", "d", " ", "t", "h", "e", " ", "r", "e", "q", "u", "e", "s", "t">>],
    [kind |-> "Error", message |-> <<"S", "i", "g", "n", " ", "f", "a", "i", "l", "e", "d", ":", " ", "U", "s", "e", "r", " ", "r", "e", "j", "e", "c", "t", "e", "d">>],
    [kind |-> "Error", message |-> TextBlockhashNotFound],
    [kind |-> "Error", message |-> <<>>] }

Event(e, m, d) == [ev |-> e, message |-> m, ms |-> d]

RetryIdle ==
  /\ rpc = "idle" /\ ri = 0 /\ rMax = 0 /\ rLastError = NoError /\ rTrace = <<>>
  /\ rOutcome = "pending" /\ rError = NoError

\* the check is missing: no error counts as a user decline
NeverUserRejection(e) == FALSE

\* part_001 168: error.message?.includes('User rejected')
IsUserRejection(e) == Includes(e.message, TextUserRejected)

\* part_001 158-161: the caller picks maxRetries; with 0 the loop body never runs
RetryStart ==
  /\ rpc = "idle"
  /\ \E m \in 0..MaxRetries :
       /\ rMax' = m
       /\ IF m = 0
          THEN rpc' = "done" /\ rOutcome' = "threw" /\ rError' = rLastError
          ELSE rpc' = "calling" /\ UNCHANGED <<rOutcome, rError>>
  /\ UNCHANGED <<ri, rLastError, rTrace, notRetryVars>>

\* part_001 162-177 and 180: one attempt, up to the delay
InvokeFn ==
  /\ rpc = "calling"
  /\ \/ /\ rTrace' = rTrace \o <<Event("call", <<>>, 0), Event("ok", <<>>, 0)>>
        /\ rpc' = "done" /\ rOutcome' = "returned"
        /\ UNCHANGED <<ri, rLastError, rError>>
     \/ \E e \in FnErrors :
          /\ rTrace' = rTrace \o <<Event("call", <<>>, 0), Event("error", e.message, 0)>>
          /\ rLastError' = e
          /\ IF IsUserRejection(e)
             THEN rpc' = "done" /\ rOutcome' = "threw" /\ rError' = e /\ UNCHANGED ri
             ELSE IF ri < rMax - 1
             THEN rpc' = "waiting" /\ UNCHANGED <<ri, rOutcome, rError>>
             ELSE rpc' = "done" /\ rOutcome' = "threw" /\ rError' = e /\ ri' = ri + 1
  /\ UNCHANGED <<rMax, notRetryVars>>

\* part_001 173-176: the delay baseDelay * 2^i elapses, the loop goes on
WaitDelay ==
  /\ rpc = "waiting"
  /\ rTrace' = Append(rTrace, Event("wait", <<>>, BaseDelay * Pow2(ri)))
  /\ ri' = ri + 1
  /\ rpc' = "calling"
  /\ UNCHANGED <<rMax, rLastError, rOutcome, rError, notRetryVars>>

(***************************************************************************)
(* getTokenOrder (formatters.js 378-394).  A public key is the sequence of *)
(* its bytes (32 in the source, KeyLen here).                              *)
(***************************************************************************)
KeyLen == 2

Bytes == {0, 127, 128, 255}

Keys == [1..KeyLen -> Bytes]

\* the comparison with each byte read as a signed 8-bit number
RECURSIVE SignedCompare(_, _)
SignedCompare(a, b) ==
  IF a = <<>> THEN 0
  ELSE LET x == IF Head(a) > 127 THEN Head(a) - 256 ELSE Head(a)
           y == IF Head(b) > 127 THEN Head(b) - 256 ELSE Head(b)
       IN  IF x < y THEN -1 ELSE IF x > y THEN 1 ELSE SignedCompare(Tail(a), Tail(b))

\* Buffer.prototype.compare on two buffers of the same length: the first byte that
\* differs decides, bytes are unsigned
RECURSIVE BufferCompare(_, _)
BufferCompare(a, b) ==
  IF a = <<>> THEN 0
  ELSE IF Head(a) < Head(b) THEN -1
  ELSE IF Head(a) > Head(b) THEN 1
  ELSE BufferCompare(Tail(a), Tail(b))

\* formatters.js 378-394
getTokenOrder(a, b) ==
  IF BufferCompare(a, b) < 0
  THEN [token0 |-> a, token1 |-> b, isFirstToken0 |-> TRUE]
  ELSE [token0 |-> b, token1 |-> a, isFirstToken0 |-> FALSE]

NoOrder == [token0 |-> <<>>, token1 |-> <<>>, isFirstToken0 |-> FALSE]

OrderIdle == mintA = <<>> /\ mintB = <<>> /\ tokenOrder = NoOrder /\ swappedOrder = NoOrder

CallGetTokenOrder ==
  /\ mintA # <<>> /\ tokenOrder = NoOrder
  /\ tokenOrder' = getTokenOrder(mintA, mintB)
  /\ UNCHANGED <<mintA, mintB, swappedOrder, notOrderVars>>

CallGetTokenOrderSwapped ==
  /\ mintA # <<>> /\ swappedOrder = NoOrder
  /\ swappedOrder' = getTokenOrder(mintB, mintA)
  /\ UNCHANGED <<mintA, mintB, tokenOrder, notOrderVars>>

(***************************************************************************)
(* The account sets of the buy and sell modals (BuyTokenModal.js 66,       *)
(* 176-264; SellTokenModal.js 67, 248-328).  A JavaScript value is a       *)
(* record of its type and its content; a public key's content is the key.  *)
(***************************************************************************)
JsNull == [type |-> "null", val |-> "null"]

PublicKey(k) == [type |-> "PublicKey", val |-> k]

JsString(t) == [type |-> "string", val |-> t]

\* PublicKey.default, the key of 32 zero bytes
PublicKeyDefault == PublicKey("11111111111111111111111111111111")

\* PublicKey.prototype.toString: the base58 text of the key
KeyToString(k) == JsString(k.val)

\* PublicKey.prototype.equals: the same bytes
KeyEquals(a, b) == a.val = b.val

\* a !== b: values of different types are never equal, two objects only when
\* they are one object, and a key decoded from an account is never the object
\* PublicKey.default
StrictNotEquals(a, b) == ~(a.type = b.type /\ a.type # "PublicKey" /\ a.val = b.val)

Truthy(v) == v.type \notin {"null", "undefined"}

\* wLimitPercent of the pool's limits
Limits == {0, 5, 100}

\* the pool account as Anchor decodes it: raydiumPoolState is a PublicKey, the
\* default key until the pool has been created on the external DEX, which
\* only a finalized pool can be
PoolAccounts ==
  {p \in [isFinalized : BOOLEAN,
          raydiumPoolState : {PublicKeyDefault, PublicKey("raydiumPool")},
          wLimitPercent : Limits] :
     p.raydiumPoolState # PublicKeyDefault => p.isFinalized}

\* part_005 70-105: the pool prop copies isFinalized and raydiumPoolState of the
\* account fetched for the list
PoolProp(poolAccount) ==
  [isFinalized |-> poolAccount.isFinalized, raydiumPoolState |-> poolAccount.raydiumPoolState]

\* calculations.js 222-226
isPoolLiveOnRaydium(pd) ==
  pd.isFinalized /\ Truthy(pd.raydiumPoolState)
    /\ ~KeyEquals(pd.raydiumPoolState, PublicKeyDefault)

\* BuyTokenModal.js 66, SellTokenModal.js 67
isRaydium(pool) ==
  pool.isFinalized /\ Truthy(pool.raydiumPoolState)
    /\ StrictNotEquals(pool.raydiumPoolState, KeyToString(PublicKeyDefault))

\* formatters.js 401-404
hasWalletLimits(pd) == pd.wLimitPercent > 0

\* the token account is always derived
AlwaysProjectAta(hasLimits, raydium) == PublicKey("projectAta")

\* BuyTokenModal.js 189-192, SellTokenModal.js 262-265, 281
ProjectAta(hasLimits, raydium) ==
  IF ~hasLimits \/ raydium THEN PublicKey("projectAta") ELSE JsNull

\* BuyTokenModal.js 214, SellTokenModal.js 282
LockedTokens(hasLimits, raydium) ==
  IF hasLimits /\ ~raydium THEN PublicKey("lockedTokensPda") ELSE JsNull

RaydiumAccountNames ==
  {"raydiumProgram", "raydiumPoolState", "raydiumAmmConfig", "raydiumToken0Vault",
   "raydiumToken1Vault", "raydiumObservationState", "raydiumAuthority"}

\* BuyTokenModal.js 228-264, SellTokenModal.js 292-328; poolData is loaded here
RaydiumAccounts(raydium, pd) ==
  IF raydium
  THEN [raydiumProgram |-> PublicKey("dexRouter"),
        raydiumPoolState |-> pd.raydiumPoolState,
        raydiumAmmConfig |-> PublicKey("raydiumAmmConfig"),
        raydiumToken0Vault |-> PublicKey("raydiumToken0Vault"),
        raydiumToken1Vault |-> PublicKey("raydiumToken1Vault"),
        raydiumObservationState |-> PublicKey("observationState"),
        raydiumAuthority |-> PublicKey("RAYDIUM_AUTHORITY")]
  ELSE [n \in RaydiumAccountNames |-> JsNull]

NoAccounts == [n \in {"projectAta", "lockedTokens"} \cup RaydiumAccountNames |-> JsNull]

\* the accounts object of either handler; the user's project-token account is
\* recipientProjectAta in buy and senderProjectAta in sell
Accounts(pool, poolAccount, pd) ==
  LET hasLimits == hasWalletLimits(poolAccount)
      raydium == isRaydium(pool)
      r == RaydiumAccounts(raydium, pd)
  IN  [n \in DOMAIN NoAccounts |->
         IF n = "projectAta" THEN ProjectAta(hasLimits, raydium)
         ELSE IF n = "lockedTokens" THEN LockedTokens(hasLimits, raydium)
         ELSE r[n]]

\* BuyTokenModal.js 198-202
BuyAtas(pool, poolAccount) ==
  {"senderStableAta", "taxReceiverAta"}
    \cup (IF Truthy(ProjectAta(hasWalletLimits(poolAccount), isRaydium(pool)))
          THEN {"projectAta"} ELSE {})

\* SellTokenModal.js 271-274
SellAtas(pool) ==
  {"recipientStableAta"} \cup (IF ~isRaydium(pool) THEN {"taxReceiverAta"} ELSE {})

TradeIdle ==
  /\ tSide = "none" /\ tProp = JsNull /\ tChain = JsNull /\ tPoolData = JsNull
  /\ tAccounts = NoAccounts /\ tAtas = {} /\ tOutcome = "idle"

\* BuyTokenModal.js 81-100: the effect loads poolData once the modal is open
FetchData ==
  /\ tSide # "none" /\ tPoolData = JsNull
  /\ tPoolData' = tChain
  /\ UNCHANGED <<tSide, tProp, tChain, tAccounts, tAtas, tOutcome, notTradeVars>>

\* the handler from the re-fetch to the instruction; reading a field of a
\* poolData that is still null throws, and the handler's catch reports it
Assemble(atas) ==
  /\ tOutcome = "idle"
  /\ IF isRaydium(tProp) /\ tPoolData = JsNull
     THEN /\ tOutcome' = "threw"
          /\ tAtas' = atas
          /\ UNCHANGED tAccounts
     ELSE /\ tOutcome' = "assembled"
          /\ tAtas' = atas
          /\ tAccounts' = Accounts(tProp, tChain, tPoolData)
  /\ UNCHANGED <<tSide, tProp, tChain, tPoolData, notTradeVars>>

\* BuyTokenModal.js 176-264
AssembleBuy == tSide = "buy" /\ Assemble(BuyAtas(tProp, tChain))

\* SellTokenModal.js 248-328
AssembleSell == tSide = "sell" /\ Assemble(SellAtas(tProp))

(***************************************************************************)
(* The state-mutating handlers of the modals and the records they read.    *)
(* The pool and config records on chain carry a version that other         *)
(* transactions advance; a modal reads them when it opens, a handler may   *)
(* read them again when the user confirms.                                 *)
(***************************************************************************)
MaxVersion == 2

MutatingHandlers ==
  {"handleBuy", "handleSell", "handleInitialBuy", "handleDeposit", "handleWithdraw",
   "handleClaim", "handleClaimLocked", "handleFinalize", "handleCreatePool", "handleExecute"}

\* the records the handler fetches between the confirm and buildAndSend:
\* BuyTokenModal.js 180-181, SellTokenModal.js 250-251, FinalizePoolModal.js 465;
\* the other handlers fetch neither (handleFinalize reads only the bundle pool)
Refetched(h) ==
  CASE h \in {"handleBuy", "handleSell"} -> {"pool", "config"}
    [] h = "handleInitialBuy" -> {"pool"}
    [] OTHER -> {}

\* the records whose fields the handler takes from the pool prop or from the state
\* loaded when the modal opened: every handler reads the pool prop; handleFinalize
\* reads poolInfo.config.feeReceiver (FinalizePoolModal.js 199-200, 236),
\* handleExecute reads configData.feeReceiver (part_009 216-241)
FromSnapshot(h) ==
  IF h \in {"handleFinalize", "handleExecute"} THEN {"pool", "config"} ELSE {"pool"}

HandlerIdle ==
  hName = "none" /\ hpc = "closed" /\ chainVer = 0 /\ openVer = 0 /\ builtFrom = {}

\* the modal opens and its effect loads the records
OpenModal ==
  /\ hpc = "closed"
  /\ \E h \in MutatingHandlers : hName' = h
  /\ openVer' = chainVer
  /\ hpc' = "open"
  /\ UNCHANGED <<chainVer, builtFrom, notHandlerVars>>

\* another transaction changes the pool or the config
ChainMoves ==
  /\ chainVer < MaxVersion
  /\ chainVer' = chainVer + 1
  /\ UNCHANGED <<hName, hpc, openVer, builtFrom, notHandlerVars>>

\* the user confirms: the handler runs up to builder.buildAndSend()
RunHandler ==
  /\ hpc = "open"
  /\ builtFrom' =
       {[rec |-> r, ver |-> chainVer, how |-> "refetched"] : r \in Refetched(hName)}
         \cup {[rec |-> r, ver |-> openVer, how |-> "snapshot"] : r \in FromSnapshot(hName)}
  /\ hpc' = "submitted"
  /\ UNCHANGED <<hName, chainVer, openVer, notHandlerVars>>

(***************************************************************************)
(* Specifications                                                          *)
(***************************************************************************)
Init == SendIdle /\ QuoteIdle /\ BuilderIdle /\ NormIdle /\ RetryIdle /\ OrderIdle /\ TradeIdle /\ HandlerIdle

Next ==
  \/ Start
  \/ HandlerGuard
  \/ GetLatestBlockhash
  \/ SignTransaction
  \/ SendRawTransaction
  \/ ConfirmOk
  \/ ConfirmErr
  \/ ConfirmTimeout
  \/ ConfirmRejects
  \/ GetSignatureStatus

Spec == Init /\ [][Next]_vars

\* The steps the code itself drives are taken when they can be: the reads, the
\* signer's answer, the raw send and the status lookup return, and the timer of
\* Promise.race (part_003 49-51) fires.  The confirmation response is the network's:
\* it may never arrive, so ConfirmOk, ConfirmErr and ConfirmRejects carry no fairness.
SpecLive ==
  /\ Init /\ [][Next]_vars
  /\ WF_vars(HandlerGuard) /\ WF_vars(GetLatestBlockhash) /\ WF_vars(SignTransaction)
  /\ WF_vars(SendRawTransaction) /\ WF_vars(ConfirmTimeout) /\ WF_vars(GetSignatureStatus)

QuoteInit ==
  /\ poolData \in Pools /\ call = NoCall /\ ret = NoRet
  /\ SendIdle /\ BuilderIdle /\ NormIdle /\ RetryIdle /\ OrderIdle /\ TradeIdle /\ HandlerIdle

QuoteNext ==
  \/ CallCurrentPrice
  \/ CallBondingCurvePrice
  \/ CallPoolProgress
  \/ CallBuyTokensOut
  \/ CallSellUsdcOut
  \/ CallBuyOutput
  \/ CallSellOfBuy
  \/ CallNumberToBN

SpecQuote == QuoteInit /\ [][QuoteNext]_vars

BuilderInit ==
  /\ existing \in SUBSET Atas
  /\ instructions = <<>> /\ signers = 0 /\ asked = <<>>
  /\ SendIdle /\ QuoteIdle /\ NormIdle /\ RetryIdle /\ OrderIdle /\ TradeIdle /\ HandlerIdle

BuilderNext ==
  \/ AddComputeBudget
  \/ AddCreateATAIfNeeded
  \/ AddMultipleATAs
  \/ AddInstruction
  \/ AddSigner

SpecBuilder == BuilderInit /\ [][BuilderNext]_vars

NormInit ==
  /\ payload \in Payloads /\ normFn = "none" /\ normalized = NoNorm
  /\ SendIdle /\ QuoteIdle /\ BuilderIdle /\ RetryIdle /\ OrderIdle /\ TradeIdle /\ HandlerIdle

NormNext ==
  \/ CallParseProgramError
  \/ CallFormatErrorMessage

SpecError == NormInit /\ [][NormNext]_vars

\* a retried call and a submission in flight side by side
RetryNext ==
  \/ RetryStart
  \/ InvokeFn
  \/ WaitDelay
  \/ Next

SpecRetry == Init /\ [][RetryNext]_vars

OrderInit ==
  /\ mintA \in Keys /\ mintB \in Keys /\ tokenOrder = NoOrder /\ swappedOrder = NoOrder
  /\ SendIdle /\ QuoteIdle /\ BuilderIdle /\ NormIdle /\ RetryIdle /\ TradeIdle /\ HandlerIdle

OrderNext ==
  \/ CallGetTokenOrder
  \/ CallGetTokenOrderSwapped

SpecOrder == OrderInit /\ [][OrderNext]_vars

\* the pool list was loaded at some state of the pool, the chain has since moved on
\* or not: a pool is never un-finalized and its external pool never removed
TradeInit ==
  /\ tSide \in {"buy", "sell"}
  /\ tChain \in PoolAccounts
  /\ \E listed \in PoolAccounts :
       /\ listed.wLimitPercent = tChain.wLimitPercent
       /\ listed.isFinalized => tChain.isFinalized
       /\ listed.raydiumPoolState # PublicKeyDefault
            => tChain.raydiumPoolState = listed.raydiumPoolState
       /\ tProp = PoolProp(listed)
  /\ tPoolData = JsNull /\ tAccounts = NoAccounts /\ tAtas = {} /\ tOutcome = "idle"
  /\ SendIdle /\ QuoteIdle /\ BuilderIdle /\ NormIdle /\ RetryIdle /\ OrderIdle /\ HandlerIdle

TradeNext ==
  \/ FetchData
  \/ AssembleBuy
  \/ AssembleSell

SpecTrade == TradeInit /\ [][TradeNext]_vars

HandlersNext ==
  \/ OpenModal
  \/ ChainMoves
  \/ RunHandler

SpecHandlers == Init /\ [][HandlersNext]_vars




(***************************************************************************)
(* Claims about the submission pipeline (checked under Spec)               *)
(***************************************************************************)

\* C1: when the confirmation comes back with a protocol-reported error, the submission
\* (sendTransaction or buildAndSend) ends in failure and never returns the signature,
\* whatever a later signature-status lookup reports.
C1_ConfirmedErrIsFatal ==
  (pc = "done" /\ confirmation = "err") => outcome = "failure"

OkPool == poolData.kind = "ok"

PositiveAmount == NLt(Zero, call.amount)

\* a zero, negative or undefined amount, or a missing pool
DegenerateInput == poolData.kind = "null" \/ Falsy(call.amount) \/ NLe(call.amount, Zero)

Bps(b) == Num(b, 10000)

OneMinusBps(b) == Num(10000 - b, 10000)

\* C3: for a pool with positive total reserves and stableIn > 0 the buy quote's tokensOut
\* is >= 0 and strictly below the pool's total project-token reserve, in calculateBuyOutput
\* and in calculateBuyTokensOut.
C3_TokensOutBelowReserve ==
  ( /\ call.fn \in {"calculateBuyTokensOut", "calculateBuyOutput"}
    /\ OkPool /\ TotalStable(poolData) > 0 /\ TotalToken(poolData) > 0
    /\ PositiveAmount ) =>
    /\ ~ret.threw
    /\ NLe(Zero, ret.out)
    /\ NLt(ret.out, HumanToken(poolData))

\* the reference buy quote of the specification for a fee of feeBps basis points
ReferenceBuy(pd, stableIn, feeBps) ==
  LET netIn == NMul(stableIn, OneMinusBps(feeBps))
      k == NMul(HumanStable(pd), HumanToken(pd))
      newToken == NDiv(k, NAdd(HumanStable(pd), netIn))
      rawTokensOut == NSub(HumanToken(pd), newToken)
  IN  NMul(rawTokensOut, OneMinusBps(pd.buyTax))

\* C4: the buy quote equals the reference computation with the configured trading fee,
\* for every configured fee in 0..10000 (a configured 0 gives fee 0), in
\* calculateBuyTokensOut and in calculateBuyOutput.
C4_BuyQuoteIsReference ==
  /\ ( /\ call.fn = "calculateBuyTokensOut" /\ call.config # Undefined
       /\ OkPool /\ TotalStable(poolData) > 0 /\ TotalToken(poolData) > 0
       /\ PositiveAmount ) =>
       /\ ret.out = ReferenceBuy(poolData, call.amount, call.config)
       /\ ret.fee = NMul(call.amount, Bps(call.config))
  /\ ( /\ call.fn = "calculateBuyOutput" /\ poolData.tradingFee # Undefined
       /\ OkPool /\ TotalStable(poolData) > 0 /\ TotalToken(poolData) > 0
       /\ PositiveAmount ) =>
       /\ ~ret.threw
       /\ ret.out = ReferenceBuy(poolData, call.amount, poolData.tradingFee)

\* what the swap pays for x units of one side: total * x / (other + x)
SwapOut(total, other, x) == NDiv(NMul(total, x), NAdd(other, x))

\* C5: the sell quote takes the sell tax from the input token amount before the swap and
\* the trading fee from the output stable amount after it; the buy quote takes the fee
\* from the input and the tax from the output.  f is the fee the quote applies.
C5_TaxAndFeeOrder ==
  LET f == ConfigTradingFee(call.config)
      S == HumanStable(poolData)
      T == HumanToken(poolData)
  IN  /\ (call.fn = "calculateSellUsdcOut" /\ OkPool /\ PositiveAmount) =>
           LET afterTax == NMul(call.amount, OneMinusBps(poolData.sellTax))
               gross == SwapOut(S, T, afterTax)
           IN  /\ ret.tax = NMul(call.amount, Bps(poolData.sellTax))
               /\ ret.fee = NMul(gross, Bps(f))
               /\ ret.out = NMul(gross, OneMinusBps(f))
      /\ (call.fn = "calculateBuyTokensOut" /\ OkPool /\ PositiveAmount) =>
           LET afterFee == NMul(call.amount, OneMinusBps(f))
               gross == SwapOut(T, S, afterFee)
           IN  /\ ret.fee = NMul(call.amount, Bps(f))
               /\ ret.tax = NMul(gross, Bps(poolData.buyTax))
               /\ ret.out = NMul(gross, OneMinusBps(poolData.buyTax))

\* C5 witness: a sell quote on a funded pool with a sell tax, whose amount out is positive
\* and is not the amount the other order of the two deductions would give
C5_SellWithTaxAndFee ==
  /\ call.fn = "calculateSellUsdcOut" /\ OkPool /\ PositiveAmount
  /\ poolData.sellTax > 0
  /\ TotalStable(poolData) > 0 /\ TotalToken(poolData) > 0
  /\ NLt(Zero, ret.out)
  /\ NLt(Zero, ret.tax) /\ NLt(Zero, ret.fee)
  /\ ret.out # NMul(SwapOut(HumanStable(poolData), HumanToken(poolData),
                            NMul(call.amount, OneMinusBps(ConfigTradingFee(call.config)))),
                    OneMinusBps(poolData.sellTax))

\* C6: calculatePoolProgress returns exactly 100 when totalSellAmount is 0 and otherwise a
\* value in [0,100], also when the real project reserve exceeds totalSellAmount.
C6_ProgressInRange ==
  (call.fn = "calculatePoolProgress" /\ OkPool) =>
    /\ poolData.totalSellAmount = 0 => ret.out = Int2Num(100)
    /\ NLe(Zero, ret.out) /\ NLe(ret.out, Int2Num(100))

\* C7: the current price is >= 0, it is 0 when the token-side total is 0, and a pool whose
\* token-side and stable-side totals are both non-zero never gets price 0.
C7_PriceZeroOnlyWithoutTokens ==
  (call.fn \in {"calculateCurrentPrice", "calculateBondingCurvePrice"} /\ OkPool) =>
    /\ NLe(Zero, ret.out)
    /\ TotalToken(poolData) = 0 => ret.out = Zero
    /\ (TotalToken(poolData) # 0 /\ TotalStable(poolData) # 0) => ret.out # Zero

\* C8: for a zero, negative or undefined amount, or a missing pool, each quote function
\* (calculateBuyTokensOut, calculateSellUsdcOut, calculateBuyOutput) raises nothing and
\* returns a result whose output amount, priceImpact, fee and tax are 0 (a field the
\* result does not carry is not counted).
C8_DegenerateInputGivesZeroQuote ==
  ( /\ call.fn \in {"calculateBuyTokensOut", "calculateSellUsdcOut", "calculateBuyOutput"}
    /\ DegenerateInput ) =>
    /\ ~ret.threw
    /\ ret.out = Zero
    /\ "priceImpact" \in ret.fields => ret.priceImpact = Zero
    /\ "fee" \in ret.fields => ret.fee = Zero
    /\ "tax" \in ret.fields => ret.tax = Zero

\* C9: no pricing function raises, for any input; for a malformed or missing pool the
\* price functions return 0.
C9_PricingNeverRaises ==
  call.fn # "none" =>
    /\ ~ret.threw
    /\ (call.fn \in {"calculateCurrentPrice", "calculateBondingCurvePrice"} /\ ~OkPool) =>
         ret.out = Zero

(***************************************************************************)
(* Claims about the TransactionBuilder (checked under SpecBuilder)         *)
(***************************************************************************)
Creations(a) == Cardinality({i \in 1..Len(instructions) : instructions[i] = CreateATA(a)})

\* C10: however often addCreateATAIfNeeded is called for one account within a build
\* (directly or through addMultipleATAs), the instruction list holds at most one creation
\* instruction for it, and none for an account that exists.
C10_AtMostOneCreationPerAccount ==
  \A a \in Atas :
    /\ Creations(a) <= 1
    /\ a \in existing => Creations(a) = 0

IsComputeBudget(ix) == ix = SetComputeUnitLimit \/ ix = SetComputeUnitPrice

IsOther(ix) == ~IsComputeBudget(ix)

OtherInstructions(ixs) == SelectSeq(ixs, IsOther)

IsPrefix(s, t) == Len(s) <= Len(t) /\ SubSeq(t, 1, Len(s)) = s

\* C11: after any sequence of addComputeBudget, addInstruction, addCreateATAIfNeeded and
\* addSigner calls every compute-budget directive precedes every other instruction of the
\* list, and each call leaves the other instructions in the order they were added in
\* (it only appends to them).
C11_ComputeBudgetFirst ==
  /\ [](\A i, j \in 1..Len(instructions) :
          (i < j /\ IsComputeBudget(instructions[j])) => IsComputeBudget(instructions[i]))
  /\ [][IsPrefix(OtherInstructions(instructions), OtherInstructions(instructions'))]_vars

\* C11 witness: compute-budget directives in front of an account creation followed by a
\* program instruction
C11_BudgetThenCreationThenProgram ==
  /\ Len(instructions) = 4
  /\ instructions[1] = SetComputeUnitLimit /\ instructions[2] = SetComputeUnitPrice
  /\ instructions[3] \in {CreateATA(a) : a \in Atas}
  /\ instructions[4] = ProgramIx
  /\ signers > 0

\* the calls a complete buildAndSend makes, in order
BuildAndSendCalls ==
  <<"getLatestBlockhash", "signTransaction">> \o Repeat("partialSign", nSigners)
    \o <<"sendRawTransaction", "confirmTransaction">>

Made(c) == \E i \in 1..Len(calls) : calls[i] = c

SignerUnavailable == wallet \in {"noSign", "null"}

\* the primary signer was asked and refused: signTransaction was the last call made
SignerDeclined ==
  Len(calls) > 0 /\ calls[Len(calls)] = "signTransaction" /\ outcome = "failure"

\* the errors that tell the caller the signature was refused or the signer is not there
SigningRejectedErrors == {"User rejected the request", "Wallet not ready"}

\* C12: build() (the first half of buildAndSend) fetches the block reference, then asks
\* the primary signer to sign, then applies each additional signer's partial signature;
\* when the primary signer declines or is unavailable the call fails with a
\* signing-rejected error, no partial signature is applied and nothing is submitted.
C12_BuildOrderAndSigningRejected ==
  op = "buildAndSend" =>
    /\ IsPrefix(calls, BuildAndSendCalls)
    /\ ( /\ pc = "done"
         /\ error # "getLatestBlockhash failed"
         /\ (SignerUnavailable \/ SignerDeclined) ) =>
         /\ outcome = "failure"
         /\ error \in SigningRejectedErrors
         /\ ~Made("partialSign")
         /\ ~Made("sendRawTransaction")

\* how sendTransaction ends for a confirmation result and a signature status
\* (part_003 46-72): the signature is returned after a clean confirmation, and after
\* any other end of the wait when the status lookup reports the transaction landed
PipelineReturnsSignature == confirmation = "ok" \/ StatusLanded(sigStatus)

\* C13: buildAndSend ends like the submission pipeline sendTransaction for every
\* confirmation result and signature status: when the confirmation does not come back
\* clean it looks the signature status up, and it returns the signature exactly when
\* sendTransaction would.
C13_BuildAndSendIsThePipeline ==
  (op = "buildAndSend" /\ pc = "done" /\ confirmation # "none") =>
    /\ confirmation # "ok" => Made("getSignatureStatus")
    /\ outcome = "success" <=> PipelineReturnsSignature

(***************************************************************************)
(* Claims about the error normalizers (checked under SpecError)            *)
(***************************************************************************)
\* t occurs in s
Contains(s, t) == \E i \in 1..Len(s) : i + Len(t) - 1 <= Len(s) /\ SubSeq(s, i, i + Len(t) - 1) = t

Normalizing == normFn # "none" /\ payload.kind # "null"

InsufficientLiquidityTexts ==
  {"Insufficient liquidity in pool", "Insufficient liquidity in the pool"}

UserDeclinedTexts == {"Transaction cancelled", "Transaction cancelled by user"}

\* C14: every error payload whose message contains the numeric code 0x1771 normalizes to
\* InsufficientLiquidity, whatever text accompanies it, in parseProgramError and in
\* formatErrorMessage.
C14_Code0x1771IsInsufficientLiquidity ==
  (Normalizing /\ Contains(payload.message, <<"0", "x", "1", "7", "7", "1">>)) =>
    /\ ~normalized.threw /\ ~normalized.raw
    /\ normalized.text \in InsufficientLiquidityTexts

HasStrongerMatch(m) ==
  \/ Contains(m, <<"0", "x", "1", "7", "7", "1">>)
  \/ Contains(m, <<"0", "x", "1", "7", "8", "6">>)
  \/ Contains(m, <<"0", "x", "1", "7", "8", "7">>)
  \/ Contains(m, <<"U", "n", "a", "u", "t", "h", "o", "r", "i", "z", "e", "d">>)
  \/ Contains(m, <<"I", "n", "s", "u", "f", "f", "i", "c", "i", "e", "n", "t", "L", "i", "q", "u", "i", "d", "i", "t", "y">>)
  \/ Contains(m, <<"i", "n", "s", "u", "f", "f", "i", "c", "i", "e", "n", "t">>)

IsDecline(ev) == ev.ev = "error" /\ Contains(ev.message, <<"U", "s", "e", "r", " ", "r", "e", "j", "e", "c", "t", "e", "d">>)

Times(seq, x) == Cardinality({i \in 1..Len(seq) : seq[i] = x})

\* C16: a user decline is never retried: an error of fn that contains 'User rejected'
\* is the last thing that happens inside retryWithBackoff (fn is not called again, no
\* delay is waited) and is the error thrown; and sendTransaction and buildAndSend ask
\* the signer to sign at most once, and end when the signer declines.
C16_DeclineIsNotRetried ==
  /\ \A k \in 1..Len(rTrace) :
       IsDecline(rTrace[k]) =>
         /\ k = Len(rTrace)
         /\ rpc = "done" /\ rOutcome = "threw"
         /\ rError.kind = "Error" /\ rError.message = rTrace[k].message
  /\ Times(calls, "signTransaction") <= 1
  /\ SignerDeclined => pc = "done"

\* C16 witness: the second attempt ended with a user decline while a third attempt was
\* still allowed, and a submission ended with the signer's decline
C16_DeclinedOnSecondAttempt ==
  /\ rpc = "done" /\ rOutcome = "threw" /\ rMax = 3
  /\ Len(rTrace) = 5
  /\ rTrace[3].ev = "wait" /\ rTrace[3].ms = 1000
  /\ IsDecline(rTrace[5])
  /\ SignerDeclined /\ error = "User rejected the request"

(***************************************************************************)
(* Claims about wallet readiness (checked under Spec)                      *)
(***************************************************************************)
\* the signer lacks one of publicKey, signTransaction, signAllTransactions
NotReady == wallet \in {"noKey", "noSign", "noSignAll", "null"}

\* C17: when the signer lacks any of public identity, signTransaction or
\* signAllTransactions, every on-chain operation (the handlers, sendTransaction) declines:
\* it makes no network read and no submission, and it ends declined or with a
\* wallet-not-ready error, not with another exception.
C17_NotReadyDeclinesFirst ==
  (op \in Handlers \cup {"sendTransaction"} /\ NotReady) =>
    /\ calls = <<>>
    /\ pc = "done" =>
         \/ outcome = "declined"
         \/ outcome = "failure" /\ error = "Wallet not ready"

(***************************************************************************)
(* Relations between quotes of one pool state (checked under SpecQuote)    *)
(***************************************************************************)
\* the positive amounts strictly below the amount of the call
SmallerAmounts == { a \in Amounts : NLt(Zero, a) /\ NLt(a, call.amount) }

\* C18: for a fixed pool state a larger stableIn gives a strictly larger priceImpact and
\* a tokensOut that is not smaller: for all 0 < a < b the quote of b (the call made) and
\* the quote of a (the same function on the same pool) are so ordered.  priceImpact is a
\* field of calculateBuyTokensOut only; tokensOut is compared in calculateBuyOutput too.
C18_LargerInputLargerImpact ==
  /\ (call.fn = "calculateBuyTokensOut" /\ OkPool) =>
       \A a \in SmallerAmounts :
         LET q == calculateBuyTokensOut(poolData, a, call.config)
         IN  NLt(q.priceImpact, ret.priceImpact) /\ NLe(q.out, ret.out)
  /\ (call.fn = "calculateBuyOutput" /\ OkPool) =>
       \A a \in SmallerAmounts :
         LET q == calculateBuyOutput(poolData, a)
         IN  ~q.threw /\ ~ret.threw /\ NLe(q.out, ret.out)

\* C19: buy then sell is lossy: for every pool, every stableIn > 0 and every fee and tax
\* setting, the sell quote of the buy quote's tokensOut on the same pool state is a
\* stable amount strictly less than stableIn.
C19_BuyThenSellIsLossy ==
  (call.fn = "buyThenSell" /\ PositiveAmount) =>
    ~ret.threw /\ NLt(ret.out, call.amount)

\* a round trip on a pool that holds more stable coin than was paid in, and that
\* pays something back
C19_RoundTripOnDeeperPool ==
  /\ call.fn = "buyThenSell" /\ PositiveAmount /\ OkPool
  /\ NLt(call.amount, HumanStable(poolData))
  /\ NLt(Zero, ret.out) /\ NLt(ret.out, call.amount)

(***************************************************************************)
(* The buy-quote scenario (checked under SpecQuote).  The scenario's pool  *)
(* is ScenarioPool: stable amounts are counted in thousands (30 is 30000   *)
(* USDC, the amount 1 is 1000 USDC), token amounts in millions (1 is 1e6   *)
(* tokens); the quote is the same number whatever the unit.                *)
(***************************************************************************)
BuyScenario ==
  /\ call.fn = "calculateBuyTokensOut" /\ poolData = ScenarioPool
  /\ call.amount = Int2Num(1) /\ ConfigTradingFee(call.config) = 100

\* netIn and newStable in USDC, from the fee the quote reports
ScenarioNetIn == NMul(NSub(call.amount, ret.fee), Int2Num(1000))
ScenarioNewStable == NAdd(NMul(HumanStable(poolData), Int2Num(1000)), ScenarioNetIn)

\* newToken (what the pool keeps; no tax in the scenario) in whole tokens, rounded down
ScenarioNewToken == MathFloor(NMul(NSub(HumanToken(poolData), ret.out), Int2Num(1000000)))

\* tokensOut in tenths of a token, rounded to the nearest
ScenarioTokensOutTenths ==
  MathFloor(NAdd(NMul(ret.out, Int2Num(10000000)), Num(1, 2)))

\* C20 as stated: in the scenario the buy quote has netIn = 990 USDC, newStable = 30990,
\* newToken about 967,408.8 tokens and tokensOut about 32,591.2 tokens.
C20_ScenarioAsStated ==
  BuyScenario =>
    /\ ScenarioNetIn = Int2Num(990) /\ ScenarioNewStable = Int2Num(30990)
    /\ ScenarioTokensOutTenths = Int2Num(325912)
    /\ ScenarioNewToken = Int2Num(967408)

\* C20: in the scenario the buy quote has netIn = 990 USDC and newStable = 30990, and
\* newToken = k / newStable is about 968,054.2 tokens and tokensOut about 31,945.8 tokens.
C20_ScenarioByTheFormula ==
  BuyScenario =>
    /\ ScenarioNetIn = Int2Num(990) /\ ScenarioNewStable = Int2Num(30990)
    /\ ScenarioTokensOutTenths = Int2Num(319458)
    /\ ScenarioNewToken = Int2Num(968054)

\* the scenario was quoted, with a fee of 10 USDC
C20_ScenarioQuoted ==
  BuyScenario /\ ret.fields = {"tokensOut", "priceImpact", "fee", "tax"}
    /\ NMul(ret.fee, Int2Num(1000)) = Int2Num(10) /\ NLt(Zero, ret.out)

(***************************************************************************)
(* Claims about the fallback of parseProgramError (checked under SpecError)*)
(***************************************************************************)
\* the message the rules are applied to: the payload's message, or the string form
\* 'Error' of an Error object without one
EffectiveMessage ==
  IF payload.message = <<>> THEN <<"E", "r", "r", "o", "r">> ELSE payload.message

\* the text holds none of the three numeric codes, no name of the table and none of the
\* four generic phrases
NoRuleMatches(m) ==
  /\ ~HasStrongerMatch(m)
  /\ \A k \in ErrorNames : ~Contains(m, k)
  /\ ~Contains(m, <<"U", "s", "e", "r", " ", "r", "e", "j", "e", "c", "t", "e", "d">>)
  /\ ~Contains(m, <<"S", "i", "m", "u", "l", "a", "t", "i", "o", "n", " ", "f", "a", "i", "l", "e", "d">>)
  /\ ~Contains(m, <<"B", "l", "o", "c", "k", "h", "a", "s", "h", " ", "n", "o", "t", " ", "f", "o", "u", "n", "d">>)

\* C21: for an error whose message matches no numeric code, no named error and no generic
\* phrase, parseProgramError returns the message itself when it has at most 100
\* characters and the generic failure message when it has more; it returns the generic
\* failure message for a null error; no message longer than 100 characters is returned
\* as it is.
C21_FallbackTruncatesAt100 ==
  normFn = "parseProgramError" =>
    /\ ~normalized.threw
    /\ payload.kind = "null" => normalized = Normalized("Transaction failed")
    /\ (payload.kind # "null" /\ NoRuleMatches(EffectiveMessage)) =>
         IF Len(EffectiveMessage) <= 100 THEN normalized = RawMessage
         ELSE normalized = Normalized("Transaction failed")
    /\ normalized.raw => Len(EffectiveMessage) <= 100

\* a message of 101 characters that no rule matches was replaced by the generic message
C21_Message101IsReplaced ==
  /\ normFn = "parseProgramError" /\ payload.kind = "Error"
  /\ Len(payload.message) = 101 /\ NoRuleMatches(payload.message)
  /\ normalized = Normalized("Transaction failed")

\* C29: for every named protocol error of the table, an error whose message is that name
\* (and holds no hex code) normalizes to that name's own message, also when the name
\* holds another name of the table (InsufficientLiquidityForPool, InvalidFeeTier).
C29_NameGetsItsOwnMessage ==
  (normFn = "parseProgramError" /\ payload.kind # "null") =>
    \A i \in 1..Len(errorMap) :
      payload.message = errorMap[i].key => normalized = Normalized(errorMap[i].value)

(***************************************************************************)
(* Claims about numberToBN (checked under SpecQuote)                       *)
(***************************************************************************)
\* C22: numberToBN (toRaw) returns floor(humanAmount * 10^decimals) for every non-negative
\* finite humanAmount and fails for a negative or non-finite one: it never returns a
\* negative integer or a substitute value such as 0 for such input.
C22_ToRawFloorsOrFails ==
  call.fn = "numberToBN" =>
    IF IsFinite(call.amount) /\ NLe(Zero, call.amount)
    THEN /\ ~ret.threw
         /\ ret.out = MathFloor(NMul(call.amount, Int2Num(Pow10(call.config))))
    ELSE ret.threw

(***************************************************************************)
(* Claims about getTokenOrder (checked under SpecOrder)                    *)
(***************************************************************************)
\* a key read as one number, the first byte the most significant
RECURSIVE KeyValue(_)
KeyValue(k) == IF k = <<>> THEN 0 ELSE k[Len(k)] + 256 * KeyValue(SubSeq(k, 1, Len(k) - 1))

\* C23: getTokenOrder returns the canonically ordered pair: token0 is the identity that is
\* smaller by raw byte comparison and token1 the other; the pair is the same for
\* getTokenOrder(a, b) and getTokenOrder(b, a); the flag is true exactly when the first
\* argument is token0 (of two different identities).
C23_CanonicalTokenOrder ==
  /\ tokenOrder # NoOrder =>
       /\ \/ tokenOrder.token0 = mintA /\ tokenOrder.token1 = mintB
          \/ tokenOrder.token0 = mintB /\ tokenOrder.token1 = mintA
       /\ KeyValue(tokenOrder.token0) <= KeyValue(tokenOrder.token1)
       /\ mintA # mintB => (tokenOrder.isFirstToken0 <=> tokenOrder.token0 = mintA)
  /\ (tokenOrder # NoOrder /\ swappedOrder # NoOrder) =>
       /\ tokenOrder.token0 = swappedOrder.token0
       /\ tokenOrder.token1 = swappedOrder.token1
       /\ mintA # mintB => (tokenOrder.isFirstToken0 <=> ~swappedOrder.isFirstToken0)

\* both orders were asked for two keys whose first bytes are 128 and 127: the key with
\* 127 is token0 although 128 is the smaller signed byte
C23_UnsignedBytesDecide ==
  /\ tokenOrder # NoOrder /\ swappedOrder # NoOrder
  /\ mintA[1] = 128 /\ mintB[1] = 127
  /\ tokenOrder.token0 = mintB /\ ~tokenOrder.isFirstToken0 /\ swappedOrder.isFirstToken0

(***************************************************************************)
(* Claims about the account sets of buy and sell (checked under SpecTrade) *)
(***************************************************************************)
RaydiumAccountsNull == \A n \in RaydiumAccountNames : tAccounts[n] = JsNull

\* C24: in buy and sell assembly every external-DEX account is null whenever the pool is
\* not finalized or its external-DEX pool reference is absent or the default identity; the
\* accounts are supplied only under the condition of isPoolLiveOnRaydium.
C24_DexAccountsOnlyWhenLive ==
  tOutcome = "assembled" =>
    /\ ~isPoolLiveOnRaydium(tProp) => RaydiumAccountsNull
    /\ ~RaydiumAccountsNull => isPoolLiveOnRaydium(tProp)

\* a finalized pool whose external pool does not exist yet got the external-DEX accounts
C24_FinalizedWithoutDexGetsAccounts ==
  /\ tOutcome = "assembled"
  /\ tProp.isFinalized /\ tProp.raydiumPoolState = PublicKeyDefault
  /\ tChain.raydiumPoolState = PublicKeyDefault
  /\ ~RaydiumAccountsNull
  /\ tAccounts["raydiumPoolState"] = PublicKeyDefault

AfterConfirmation == confirmation # "none" \/ pc \in {"status", "done"}

\* C25: one invocation of sendTransaction or buildAndSend asks the signer to sign at most
\* once and calls sendRawTransaction at most once, with preflight enabled and at most 3
\* network-level retries passed to the RPC; after a confirmation error, a timeout or a
\* failed status lookup it never signs and never sends again.
C25_SignOnceSendOnce ==
  /\ [](/\ Times(calls, "signTransaction") <= 1
        /\ Times(calls, "sendRawTransaction") <= 1
        /\ Made("sendRawTransaction") =>
             ~sendOptions.skipPreflight /\ sendOptions.maxRetries = 3)
  /\ [][AfterConfirmation =>
          /\ Times(calls', "signTransaction") = Times(calls, "signTransaction")
          /\ Times(calls', "sendRawTransaction") = Times(calls, "sendRawTransaction")]_vars

\* sendTransaction ended in failure after the confirmation timed out and the status
\* lookup failed, having signed once and sent once
C25_TimeoutThenLookupFailed ==
  /\ op = "sendTransaction" /\ pc = "done" /\ outcome = "failure"
  /\ confirmation = "timeout" /\ sigStatus = "threw"
  /\ Times(calls, "signTransaction") = 1 /\ Times(calls, "sendRawTransaction") = 1
  /\ sendOptions = [skipPreflight |-> FALSE, maxRetries |-> 3]

\* C26: the submission follows Built -> Sent -> {ConfirmedOk, ConfirmedErr, TimedOut} ->
\* {Resolved, Failed} and always finishes: provided the send and the status lookup return,
\* every invocation that reached Sent eventually returns the signature or raises, even
\* when the confirmation response never arrives; for sendTransaction and for buildAndSend.
C26_SentAlwaysFinishes ==
  /\ [][/\ pc = "send" => pc' \in {"confirm", "done"}
        /\ pc = "confirm" => pc' \in {"status", "done"}
        /\ pc = "status" => pc' = "done"]_vars
  /\ (pc = "confirm") ~> (pc = "done" /\ outcome \in {"success", "failure"})

\* the part of C26 that the timer of sendTransaction gives
C26_SendTransactionFinishes ==
  (op = "sendTransaction" /\ pc = "confirm") ~> (pc = "done" /\ outcome \in {"success", "failure"})

(***************************************************************************)
(* Claims about the backoff of retryWithBackoff (checked under SpecRetry)  *)
(***************************************************************************)
\* the attempts made among the first k events
AttemptsUpTo(k) == Cardinality({j \in 1..k : rTrace[j].ev = "call"})

\* C27: retryWithBackoff(fn, maxRetries, baseDelay) invokes fn at most maxRetries times,
\* returns the first successful result without invoking fn again, waits baseDelay * 2^i
\* after the failed attempt number i (counted from 0) and waits nothing after the last
\* attempt, and after maxRetries failures raises the error of the last attempt.
C27_BoundedExponentialBackoff ==
  /\ AttemptsUpTo(Len(rTrace)) <= rMax
  /\ \A k \in 1..Len(rTrace) :
       /\ rTrace[k].ev = "ok" => k = Len(rTrace) /\ rpc = "done" /\ rOutcome = "returned"
       /\ rTrace[k].ev = "wait" =>
            /\ rTrace[k - 1].ev = "error"
            /\ rTrace[k].ms = BaseDelay * (2 ^ (AttemptsUpTo(k) - 1))
            /\ AttemptsUpTo(k) < rMax
       /\ (rTrace[k].ev = "call" /\ k > 1) => rTrace[k - 1].ev = "wait"
  /\ (rpc = "done" /\ rOutcome = "returned") => rTrace[Len(rTrace)].ev = "ok"
  /\ (rpc = "done" /\ rOutcome = "threw" /\ rMax >= 1) =>
       /\ rTrace[Len(rTrace)].ev = "error"
       /\ rError.kind = "Error" /\ rError.message = rTrace[Len(rTrace)].message
       /\ AttemptsUpTo(Len(rTrace)) = rMax \/ IsDecline(rTrace[Len(rTrace)])

\* three attempts failed, with 1000 ms and 2000 ms waited between them and nothing
\* after the third, whose error (not the first one's) is the one thrown
C27_ThreeFailuresTwoWaits ==
  /\ rpc = "done" /\ rOutcome = "threw" /\ rMax = 3
  /\ Len(rTrace) = 8
  /\ rTrace[2].ev = "error" /\ rTrace[2].message = <<>>
  /\ rTrace[3].ev = "wait" /\ rTrace[3].ms = 1000
  /\ rTrace[6].ev = "wait" /\ rTrace[6].ms = 2000
  /\ rTrace[8].ev = "error" /\ rTrace[8].message = TextBlockhashNotFound
  /\ rError.message = TextBlockhashNotFound

(***************************************************************************)
(* Claims about re-fetching (checked under SpecHandlers)                   *)
(***************************************************************************)
RefetchedRecords == {b.rec : b \in {x \in builtFrom : x.how = "refetched"}}

\* C28: in every state-mutating handler the on-chain records the transaction depends on
\* (pool, and config where its fields are used) are fetched again inside the handler,
\* after the user's confirm and before the transaction is submitted; no handler builds
\* its transaction only from a snapshot taken when the modal opened.
C28_RefetchedBeforeSubmit ==
  hpc = "submitted" =>
    /\ "pool" \in RefetchedRecords
    /\ (\E b \in builtFrom : b.rec = "config") => "config" \in RefetchedRecords
    /\ \E b \in builtFrom : b.how = "refetched"

\* finalize was submitted with the fee receiver of a config read when the modal opened,
\* two versions behind the chain, and with nothing fetched again
C28_FinalizeFromStaleSnapshot ==
  /\ hpc = "submitted" /\ hName = "handleFinalize"
  /\ RefetchedRecords = {}
  /\ [rec |-> "config", ver |-> 0, how |-> "snapshot"] \in builtFrom
  /\ chainVer = 2

====
